---- MODULE Spec2Model ----
(***************************************************************************)
(* Model of the path- and name-validation core of server.js: the two      *)
(* sanitizers, the validator, the extension whitelist, the confinement    *)
(* check, and the download, directory-listing and upload handlers that    *)
(* compose them, the listing with its fs.readdir and fs.stat callbacks.    *)
(*                                                                         *)
(* A JavaScript string is a sequence of characters; a character is a      *)
(* one-character TLA+ string, except that characters TLA+ cannot write    *)
(* are named: "NUL" (0x00), "US" (0x1F), "VT" (0x0B), "NBSP" (U+00A0).    *)
(* Paths follow the POSIX flavour of Node's path module.                   *)
(***************************************************************************)
EXTENDS Integers, Sequences, FiniteSets, TLC

VARIABLES
  mode,        \* which entry point is running: "idle", a pure-function name, or a flow
  pc,          \* position of the running handler chain
  arg,         \* pure-function runs: the input string
  arg2,        \* pure-function runs: the second input (the base directory), or <<>>
  ret,         \* pure-function runs: the value returned (a string or a BOOLEAN)
  ret2,        \* pure-function runs: the value returned by applying the function to ret
  rawPath,     \* request: the raw client path string (URL path or uploadPath field)
  rawName,     \* request: the raw client file name (multipart filename)
  sanitized,   \* request: the sanitized string the handler works with
  opPath,      \* request: the filesystem path the handler operates on
  finalName,   \* upload: the sanitized, then collision-resolved, file name
  log,         \* request: the stages and filesystem calls made so far, in order
  status,      \* request: HTTP status of the response, 0 while none
  reason,      \* request: the error text of the response, "" while none
  fs,          \* the filesystem: existing absolute path -> "file" | "dir" | "special"
  files,       \* listing: the names fs.readdir handed to its callback, in its order
  validItems,  \* listing: the items the readdir callback kept, in order
  itemData,    \* listing: one promise per valid item, pending or settled with its value
  settleOrder, \* listing: the indices of the file promises in the order they settled
  rendered,    \* listing: the entries of the page sent, in the order they appear on it
  unlinked,    \* listing: the path another process removed meanwhile, or <<>>
  served,      \* download: the path express.static resolved and sent, or <<>>
  linked,      \* listing: the rendered file entry whose download link was followed
  uploads,     \* concurrent uploads: request id -> the state of that POST /upload
  owner,       \* concurrent uploads: path -> the request whose write stream opened it last
  naming,      \* collision loop run step by step: counter, candidate, checks made
  uploadInProgress,  \* page: window.uploadInProgress
  currentUploadXHR,  \* page: window.currentUploadXHR, an index of xhrs or 0 for null
  selectedFile,      \* page: window.selectedFile, a file or <<>> for null
  fileInput,         \* page: fileInput.files[0], a file or <<>> when none is chosen
  xhrs,              \* page: every XMLHttpRequest created by uploadFile, in order
  timers,            \* page: the pending setTimeout callbacks
  lastSelected       \* page: history of the user's most recent drop or picker selection

vars ==
  <<mode, pc, arg, arg2, ret, ret2,
    rawPath, rawName, sanitized, opPath, finalName, log, status, reason, fs,
    files, validItems, itemData, settleOrder, rendered, unlinked,
    served, linked, uploads, owner, naming,
    uploadInProgress, currentUploadXHR, selectedFile, fileInput, xhrs, timers, lastSelected>>

(***************************************************************************)
(* Strings                                                                 *)
(***************************************************************************)

\* A string literal as a sequence of characters.
Str(s) == [i \in 1..Len(s) |-> SubSeq(s, i, i)]

\* s.startsWith(p)
startsWith(s, p) == Len(p) <= Len(s) /\ SubSeq(s, 1, Len(p)) = p

\* s contains the substring p
includes(s, p) == \E i \in 1..(Len(s) - Len(p) + 1) : SubSeq(s, i, i + Len(p) - 1) = p

\* s.substring(n) with a 0-based start index
substring(s, n) == SubSeq(s, n + 1, Len(s))

Seq2Set(seq) == { seq[i] : i \in 1..Len(seq) }

Upper == {"A","B","C","D","E","F","G","H","I","J","K","L","M",
          "N","O","P","Q","R","S","T","U","V","W","X","Y","Z"}
Lower == {"a","b","c","d","e","f","g","h","i","j","k","l","m",
          "n","o","p","q","r","s","t","u","v","w","x","y","z"}
Digit == {"0","1","2","3","4","5","6","7","8","9"}

UpperSeq == Str("ABCDEFGHIJKLMNOPQRSTUVWXYZ")
LowerSeq == Str("abcdefghijklmnopqrstuvwxyz")

\* String.prototype.toLowerCase on the characters of the model
toLowerCase(s) ==
  [i \in 1..Len(s) |->
     IF s[i] \in Upper
       THEN LowerSeq[CHOOSE k \in 1..Len(UpperSeq) : UpperSeq[k] = s[i]]
       ELSE s[i]]

\* The characters 0x00-0x1F of the regular expressions' \x00-\x1f range
ControlChars == {"NUL", "\t", "\n", "VT", "\f", "\r", "US"}

\* The characters the regular expression class \s matches
WhiteSpace == {" ", "\t", "\n", "VT", "\f", "\r", "NBSP"}

(***************************************************************************)
(* Sanitizers                                                              *)
(***************************************************************************)

\* faulty variant: s.replace("..", ""), which removes the first match only
removeDotDot_FirstOnly(s) ==
  IF \E i \in 1..(Len(s) - 1) : s[i] = "." /\ s[i + 1] = "."
    THEN LET i == CHOOSE k \in 1..(Len(s) - 1) :
                    /\ s[k] = "." /\ s[k + 1] = "."
                    /\ \A j \in 1..(k - 1) : ~(s[j] = "." /\ s[j + 1] = ".")
         IN  SubSeq(s, 1, i - 1) \o SubSeq(s, i + 2, Len(s))
  ELSE s

\* s.replace(/\.\./g, ""): leftmost non-overlapping matches, in one pass.
\* The matches pair up the dots of every maximal run of dots from its left
\* end, so a character stays iff it is no dot, or it is the last dot of a
\* run of odd length.
removeDotDot(s) ==
  LET runStart(i) == CHOOSE j \in 1..i :
                       /\ \A k \in j..i : s[k] = "."
                       /\ (j = 1 \/ s[j - 1] # ".")
      stays(i) == \/ s[i] # "."
                  \/ /\ (i = Len(s) \/ s[i + 1] # ".")
                     /\ (i - runStart(i)) % 2 = 0
      kept == SelectSeq([i \in 1..Len(s) |-> i], stays)
  IN  [k \in 1..Len(kept) |-> s[kept[k]]]

\* the class [<>:"/\\|?*\x00-\x1f] of sanitizeFilename
FilenameStripped == {"<", ">", ":", "\"", "/", "\\", "|", "?", "*"} \cup ControlChars

\* the class [<>:"|?*\x00-\x1f] of sanitizePath
PathStripped == {"<", ">", ":", "\"", "|", "?", "*"} \cup ControlChars

stripFilenameChars(s) == SelectSeq(s, LAMBDA c : c \notin FilenameStripped)

stripPathChars(s) == SelectSeq(s, LAMBDA c : c \notin PathStripped)

\* s.replace(/\\/g, "/")
backslashToSlash(s) == [i \in 1..Len(s) |-> IF s[i] = "\\" THEN "/" ELSE s[i]]

\* faulty variant: the separators left out of the stripped class
sanitizeFilename_KeepSlash(filename) == removeDotDot(stripPathChars(filename))

sanitizeFilename(filename) == removeDotDot(stripFilenameChars(filename))

\* faulty variant: the ".." removal left out
sanitizePath_KeepDotDot(requestedPath) == backslashToSlash(stripPathChars(requestedPath))

\* faulty variant: the ".." removal made before the character strip
sanitizePath_RemoveBeforeStrip(requestedPath) ==
  backslashToSlash(stripPathChars(removeDotDot(requestedPath)))

sanitizePath(requestedPath) == backslashToSlash(removeDotDot(stripPathChars(requestedPath)))

(***************************************************************************)
(* Validator                                                               *)
(***************************************************************************)

maxNameLength == 500

\* the class [a-zA-Z0-9._\-\s\/] of validPattern
ValidChars == Lower \cup Upper \cup Digit \cup {".", "_", "-", "/"} \cup WhiteSpace

\* validPattern.test(filename): ^[...]+$
validPatternTest(filename) ==
  Len(filename) >= 1 /\ \A i \in 1..Len(filename) : filename[i] \in ValidChars

isValidFilename(filename) ==
  validPatternTest(filename) /\ Len(filename) <= maxNameLength /\ Len(filename) > 0

(***************************************************************************)
(* Node's path module (POSIX)                                              *)
(***************************************************************************)

\* the pieces of s between "/" characters: s.split("/")
RECURSIVE splitSlash(_)
splitSlash(s) ==
  IF \A i \in 1..Len(s) : s[i] # "/" THEN <<s>>
  ELSE LET i == CHOOSE k \in 1..Len(s) : s[k] = "/" /\ \A j \in 1..(k - 1) : s[j] # "/"
       IN  <<SubSeq(s, 1, i - 1)>> \o splitSlash(SubSeq(s, i + 1, Len(s)))

\* segs.join("/")
RECURSIVE joinSlash(_)
joinSlash(segs) ==
  IF segs = <<>> THEN <<>>
  ELSE IF Len(segs) = 1 THEN segs[1]
  ELSE segs[1] \o <<"/">> \o joinSlash(Tail(segs))

DotDot == <<".", ".">>

\* normalizeString: drop empty and "." segments, resolve ".." against the
\* segments kept so far; above the top, ".." is kept only if allowAboveRoot
RECURSIVE normalizeSegments(_, _, _)
normalizeSegments(segs, acc, allowAboveRoot) ==
  IF segs = <<>> THEN acc
  ELSE LET seg == Head(segs)
           next == IF seg = <<>> \/ seg = <<".">> THEN acc
                   ELSE IF seg = DotDot
                     THEN IF acc # <<>> /\ acc[Len(acc)] # DotDot
                            THEN SubSeq(acc, 1, Len(acc) - 1)
                          ELSE IF allowAboveRoot THEN Append(acc, seg)
                          ELSE acc
                   ELSE Append(acc, seg)
       IN  normalizeSegments(Tail(segs), next, allowAboveRoot)

normalizeString(p, allowAboveRoot) ==
  joinSlash(normalizeSegments(splitSlash(p), <<>>, allowAboveRoot))

isAbsolute(p) == Len(p) > 0 /\ p[1] = "/"

\* path.normalize
pathNormalize(p) ==
  IF Len(p) = 0 THEN <<".">>
  ELSE LET abs      == isAbsolute(p)
           trailing == p[Len(p)] = "/"
           body     == normalizeString(p, ~abs)
       IN  IF Len(body) = 0
             THEN IF abs THEN <<"/">> ELSE IF trailing THEN <<".", "/">> ELSE <<".">>
           ELSE (IF abs THEN <<"/">> ELSE <<>>) \o body \o (IF trailing THEN <<"/">> ELSE <<>>)

\* path.join(a, b)
pathJoin(a, b) ==
  IF Len(a) = 0 /\ Len(b) = 0 THEN <<".">>
  ELSE IF Len(a) = 0 THEN pathNormalize(b)
  ELSE IF Len(b) = 0 THEN pathNormalize(a)
  ELSE pathNormalize(a \o <<"/">> \o b)

\* path.resolve(base, p) for an absolute base: arguments are taken from the
\* right until one is absolute; empty arguments are skipped
pathResolve(base, p) ==
  LET joined == IF isAbsolute(p) THEN p
                ELSE IF Len(p) = 0 THEN base
                ELSE base \o <<"/">> \o p
  IN  <<"/">> \o normalizeString(joined, FALSE)

\* path.basename(p): the last segment, trailing separators ignored
pathBasename(p) ==
  LET segs == SelectSeq(splitSlash(p), LAMBDA seg : seg # <<>>)
  IN  IF segs = <<>> THEN <<>> ELSE segs[Len(segs)]

\* the scan of path.extname, from the last character leftwards, by what it
\* leaves in its variables (0-based, as in Node): end is one past the last
\* character that is no separator, startPart the start of the segment that
\* character is in, startDot the last dot of the segment, and preDotState
\* is 0 if nothing precedes that dot in the segment, 1 if the segment begins
\* with a dot and -1 otherwise
extnameScan(p) ==
  LET nonSlash  == { i \in 1..Len(p) : p[i] # "/" }
      last      == CHOOSE i \in nonSlash : \A j \in nonSlash : j <= i
      slashes   == { i \in 1..(last - 1) : p[i] = "/" }
      startPart == IF slashes = {} THEN 0
                   ELSE CHOOSE i \in slashes : \A j \in slashes : j <= i
      dots      == { i \in (startPart + 1)..last : p[i] = "." }
      lastDot   == CHOOSE i \in dots : \A j \in dots : j <= i
  IN  IF nonSlash = {}
        THEN [startDot |-> -1, startPart |-> 0, end |-> -1,
              matchedSlash |-> TRUE, preDotState |-> 0]
      ELSE IF dots = {}
        THEN [startDot |-> -1, startPart |-> startPart, end |-> last,
              matchedSlash |-> FALSE, preDotState |-> 0]
      ELSE [startDot |-> lastDot - 1, startPart |-> startPart, end |-> last,
            matchedSlash |-> FALSE,
            preDotState |-> IF lastDot = startPart + 1 THEN 0
                            ELSE IF p[startPart + 1] = "." THEN 1
                            ELSE -1]

\* path.extname(p)
extname(p) ==
  LET st == extnameScan(p)
  IN  IF \/ st.startDot = -1
         \/ st.end = -1
         \/ st.preDotState = 0
         \/ (st.preDotState = 1 /\ st.startDot = st.end - 1 /\ st.startDot = st.startPart + 1)
        THEN <<>>
      ELSE SubSeq(p, st.startDot + 1, st.end)

(***************************************************************************)
(* Extension whitelist                                                     *)
(***************************************************************************)

allowedExtensions ==
  { Str(".pdf"), Str(".txt"), Str(".doc"), Str(".docx"), Str(".xls"), Str(".xlsx"),
    Str(".ppt"), Str(".pptx"), Str(".jpg"), Str(".jpeg"), Str(".png"), Str(".gif"),
    Str(".bmp"), Str(".webp"), Str(".mp4"), Str(".mp3"), Str(".wav"), Str(".avi"),
    Str(".mov"), Str(".zip"), Str(".rar"), Str(".7z"), Str(".tar"), Str(".gz"),
    Str(".json"), Str(".xml"), Str(".csv"), Str(".html"), Str(".css"), Str(".js") }

\* faulty variant: the extension compared without lower-casing
isAllowedFileType_CaseSensitive(filename) == extname(filename) \in allowedExtensions

isAllowedFileType(filename) == toLowerCase(extname(filename)) \in allowedExtensions

(***************************************************************************)
(* Confinement check                                                       *)
(***************************************************************************)

\* faulty variant: the candidate joined under the base directory, so that
\* an absolute candidate does not replace the base
isSecurePath_JoinedUnderBase(requestedPath, baseDir) ==
  LET resolvedPath    == pathJoin(baseDir, requestedPath)
      resolvedBaseDir == pathResolve(baseDir, <<>>)
  IN  startsWith(resolvedPath, resolvedBaseDir)

isSecurePath(requestedPath, baseDir) ==
  LET resolvedPath    == pathResolve(baseDir, requestedPath)
      resolvedBaseDir == pathResolve(baseDir, <<>>)
  IN  startsWith(resolvedPath, resolvedBaseDir)

\* __dirname: the directory server.js is installed in
dirname == Str("/d")

\* path.join(__dirname, "public")
publicDir == pathJoin(dirname, Str("p"))

\* path.join(__dirname, "uploads")
uploadsDir == pathJoin(dirname, Str("u"))

(***************************************************************************)
(* The filesystem                                                          *)
(***************************************************************************)

\* p without one trailing separator (the root "/" is kept)
stripTrailingSlash(p) ==
  IF Len(p) > 1 /\ p[Len(p)] = "/" THEN SubSeq(p, 1, Len(p) - 1) ELSE p

\* the kind fs.stat reports for p in filesystem f, "none" for an error;
\* a path written with a trailing separator names a directory only
fsStat(f, p) ==
  LET q == stripTrailingSlash(p)
  IN  IF q \notin DOMAIN f THEN "none"
      ELSE IF q # p /\ f[q] # "dir" THEN "none"
      ELSE f[q]

\* fs.existsSync(p)
fsExists(f, p) == fsStat(f, p) # "none"

\* p and its ancestors: every prefix of p that ends before a separator
ancestorsAndSelf(p) ==
  LET q == stripTrailingSlash(p)
  IN  { SubSeq(q, 1, i) : i \in { k \in 1..Len(q) : k = Len(q) \/ q[k + 1] = "/" } }

\* fs.mkdirSync(p, {recursive: true}) fails if a path component is not a directory
mkdirFails(f, p) == \E a \in ancestorsAndSelf(p) : a \in DOMAIN f /\ f[a] # "dir"

\* the filesystem after a successful fs.mkdirSync(p, {recursive: true})
mkdirRecursive(f, p) ==
  [ q \in DOMAIN f \cup ancestorsAndSelf(p) |-> IF q \in DOMAIN f THEN f[q] ELSE "dir" ]

\* the tree the server starts with: the public and the uploads directory,
\* each with a few entries; among the public files are one with an
\* extension off the whitelist, one whose name the validator refuses, and
\* two whose names the sanitizer shortens
InitialFs ==
  [ q \in { Str("/d"), Str("/d/p"), Str("/d/u"), Str("/d/p/p"), Str("/d/p/pp.js"),
             Str("/d/p/d"), Str("/d/u/p") } |-> "dir" ]
    @@ [ q \in { Str("/d/p/p.js"), Str("/d/p/p/p.js"), Str("/d/p/pp"), Str("/d/p/.js"),
                 Str("/d/p/p/.js"), Str("/d/p/d/p.js"), Str("/d/p/p.p"),
                 Str("/d/p/p~.js"), Str("/d/p/p<.js"), Str("/d/p/p.js.."),
                 Str("/d/u/p.js"), Str("/d/u/p/p.js"), Str("/d/u/p/p_1.js") } |-> "file" ]
    @@ [ q \in { Str("/d/p/p/p") } |-> "special" ]

(***************************************************************************)
(* Inputs of the pure functions                                            *)
(***************************************************************************)

\* every string over alphabet of at most n characters
StringsUpTo(alphabet, n) == UNION { [1..k -> alphabet] : k \in 0..n }

\* the string of n copies of the character c
Repeat(c, n) == [i \in 1..n |-> c]

MaxSanitizeLen == 5

\* dots, both separators, a stripped punctuation character, a control
\* character and an ordinary letter
SanitizerAlphabet == {".", "/", "\\", "<", "NUL", "a"}

SanitizerInputs == StringsUpTo(SanitizerAlphabet, MaxSanitizeLen)

MaxValidateLen == 2

ValidatorAlphabet ==
  {"a", "Z", "7", ".", "_", "-", " ", "/", "\t", "\n", "NBSP", "%", "<", "~"}

\* short strings over the alphabet, and strings around the length limit
ValidatorInputs ==
  StringsUpTo(ValidatorAlphabet, MaxValidateLen)
    \cup { Repeat("a", n) : n \in (maxNameLength - 1)..(maxNameLength + 1) }
    \cup { Repeat("a", maxNameLength - 1) \o <<c>> : c \in ValidatorAlphabet }
    \cup { Repeat("a", maxNameLength) \o <<c>> : c \in ValidatorAlphabet }

toUpperCase(s) ==
  [i \in 1..Len(s) |->
     IF s[i] \in Lower
       THEN UpperSeq[CHOOSE k \in 1..Len(LowerSeq) : LowerSeq[k] = s[i]]
       ELSE s[i]]

\* s with its first character upper-cased
Capitalize(s) == IF Len(s) = 0 THEN s ELSE toUpperCase(<<s[1]>>) \o Tail(s)

\* extension texts: the configured ones in three letter cases, and others
ExtensionTexts ==
  allowedExtensions
    \cup { toUpperCase(e) : e \in allowedExtensions }
    \cup { <<".">> \o Capitalize(Tail(e)) : e \in allowedExtensions }
    \cup { Str(".exe"), Str(".jsx"), Str(".j"), Str(".pdfx"), Str(".sh"), Str("."), <<>> }

ExtensionStems ==
  { <<>>, Str("a"), Str("a.b"), Str("report.pdf"), Str("."), Str(".a"), Str("a."),
    Str("A B"), Str("a.js.") }

\* names: a stem followed by an extension text, and the extension text
\* without its dot after a stem
ExtensionInputs ==
  { s \o e : s \in ExtensionStems, e \in ExtensionTexts }
    \cup { s \o Tail(e) : s \in ExtensionStems, e \in ExtensionTexts \ {<<>>} }

MaxConfineLen == 5

ConfineAlphabet == {"/", ".", "d", "p"}

ConfineInputs == StringsUpTo(ConfineAlphabet, MaxConfineLen)

(***************************************************************************)
(* Runs of the pure functions: one call, and for the sanitizers a second   *)
(* call on the result of the first                                         *)
(***************************************************************************)

NoString == <<>>

\* the two POST /upload requests the server may be handling at the same time
Requests == {"A", "B"}

\* a request that has not reached the server yet
IdleUpload ==
  [pc |-> "idle", hasFile |-> FALSE, originalname |-> NoString, uploadPath |-> NoString,
   fileFirst |-> FALSE, tooLarge |-> FALSE, bodyAtFile |-> NoString,
   destination |-> NoString, filename |-> NoString, path |-> NoString,
   status |-> 0, error |-> "", responsePath |-> NoString]

NoUploads == [r \in Requests |-> IdleUpload]

\* the collision loop before storage.filename has been called
NoNaming == [pc |-> "idle", sanitizedName |-> NoString, fullDir |-> NoString,
             finalName |-> NoString, counter |-> 1, checks |-> 0, writes |-> 0]

\* the page state set up by the DOMContentLoaded listener
PageLoaded ==
  /\ uploadInProgress = FALSE
  /\ currentUploadXHR = 0
  /\ selectedFile = NoString
  /\ fileInput = NoString
  /\ xhrs = <<>>
  /\ timers = {}
  /\ lastSelected = NoString

RequestIdle ==
  /\ rawPath = NoString /\ rawName = NoString /\ sanitized = NoString
  /\ opPath = NoString /\ finalName = NoString
  /\ log = <<>> /\ status = 0 /\ reason = ""
  /\ files = <<>> /\ validItems = <<>> /\ itemData = <<>> /\ settleOrder = <<>>
  /\ rendered = <<>> /\ unlinked = NoString
  /\ served = NoString /\ linked = NoString
  /\ uploads = NoUploads /\ owner = <<>>
  /\ naming = NoNaming
  /\ PageLoaded

InitPure ==
  /\ mode = "idle" /\ pc = "idle"
  /\ arg = NoString /\ arg2 = NoString /\ ret = NoString /\ ret2 = NoString
  /\ RequestIdle
  /\ fs = InitialFs

listingVars == <<files, validItems, itemData, settleOrder, rendered, unlinked>>

staticVars == <<served, linked>>

uploadsVars == <<uploads, owner>>

clientVars ==
  <<uploadInProgress, currentUploadXHR, selectedFile, fileInput, xhrs, timers, lastSelected>>

otherVars == <<staticVars, uploadsVars, naming, clientVars>>

requestVars ==
  <<rawPath, rawName, sanitized, opPath, finalName, log, status, reason, fs, listingVars,
    otherVars>>

CallSanitizeFilename ==
  /\ mode = "idle"
  /\ \E s \in SanitizerInputs :
       /\ arg' = s
       /\ ret' = sanitizeFilename(s)
  /\ mode' = "sanitizeFilename" /\ pc' = "once"
  /\ UNCHANGED <<arg2, ret2, requestVars>>

CallSanitizeFilenameAgain ==
  /\ mode = "sanitizeFilename" /\ pc = "once"
  /\ ret2' = sanitizeFilename(ret)
  /\ pc' = "twice"
  /\ UNCHANGED <<mode, arg, arg2, ret, requestVars>>

CallSanitizePath ==
  /\ mode = "idle"
  /\ \E s \in SanitizerInputs :
       /\ arg' = s
       /\ ret' = sanitizePath(s)
  /\ mode' = "sanitizePath" /\ pc' = "once"
  /\ UNCHANGED <<arg2, ret2, requestVars>>

CallSanitizePathAgain ==
  /\ mode = "sanitizePath" /\ pc = "once"
  /\ ret2' = sanitizePath(ret)
  /\ pc' = "twice"
  /\ UNCHANGED <<mode, arg, arg2, ret, requestVars>>

CallIsValidFilename ==
  /\ mode = "idle"
  /\ \E s \in ValidatorInputs :
       /\ arg' = s
       /\ ret' = isValidFilename(s)
  /\ mode' = "isValidFilename" /\ pc' = "once"
  /\ UNCHANGED <<arg2, ret2, requestVars>>

CallIsAllowedFileType ==
  /\ mode = "idle"
  /\ \E s \in ExtensionInputs :
       /\ arg' = s
       /\ ret' = isAllowedFileType(s)
  /\ mode' = "isAllowedFileType" /\ pc' = "once"
  /\ UNCHANGED <<arg2, ret2, requestVars>>

CallIsSecurePath ==
  /\ mode = "idle"
  /\ \E s \in ConfineInputs :
       /\ arg' = s
       /\ arg2' = publicDir
       /\ ret' = isSecurePath(s, publicDir)
  /\ mode' = "isSecurePath" /\ pc' = "once"
  /\ UNCHANGED <<ret2, requestVars>>

(***************************************************************************)
(* Raw client strings of the request flows                                 *)
(***************************************************************************)

MaxPieces == 3

\* the building blocks of a raw client string: the three traversal
\* spellings, the separator (alone at the front it makes the string
\* absolute), a single dot, a letter, a whitelisted extension, a character
\* the sanitizers strip, a character they keep but the validator refuses,
\* a bare percent sign, and the public directory's own absolute path
\* written without its leading separator
Pieces ==
  { Str("../"), Str("..\\"), Str("%2e%2e%2f"), Str("/"), Str("."), Str("p"), Str(".js"),
    Str("<"), Str("~"), Str("%"), Str("d/p") }

RECURSIVE concatAll(_)
concatAll(seqs) == IF seqs = <<>> THEN <<>> ELSE Head(seqs) \o concatAll(Tail(seqs))

RawInputs == { concatAll(ps) : ps \in StringsUpTo(Pieces, MaxPieces) }

\* an upload request varies one of its two strings at a time
UploadInputs ==
  { <<dir, Str("p.js")>> : dir \in RawInputs }
    \cup { <<dir, name>> : dir \in { <<>>, Str("p"), Str("pp") }, name \in RawInputs }

(***************************************************************************)
(* decodeURIComponent                                                      *)
(***************************************************************************)

\* the %XX escapes of the model's characters; the raw strings of the model
\* hold no other escape, only these and "%" not followed by two hex digits
PercentEscapes ==
  (Str("2e") :> ".") @@ (Str("2f") :> "/") @@ (Str("5c") :> "\\") @@ (Str("25") :> "%")
    @@ (Str("3c") :> "<") @@ (Str("7e") :> "~") @@ (Str("20") :> " ") @@ (Str("70") :> "p")
    @@ (Str("3e") :> ">") @@ (Str("3a") :> ":") @@ (Str("22") :> "\"") @@ (Str("7c") :> "|")
    @@ (Str("3f") :> "?")

\* decodeURIComponent(s): [ok |-> TRUE, value |-> decoded], or ok = FALSE
\* for the URIError of a "%" not followed by an escape
RECURSIVE decodeURIComponent(_)
decodeURIComponent(s) ==
  IF s = <<>> THEN [ok |-> TRUE, value |-> <<>>]
  ELSE IF s[1] # "%"
    THEN LET rest == decodeURIComponent(Tail(s))
         IN  [ok |-> rest.ok, value |-> <<s[1]>> \o rest.value]
  ELSE IF Len(s) >= 3 /\ toLowerCase(SubSeq(s, 2, 3)) \in DOMAIN PercentEscapes
    THEN LET rest == decodeURIComponent(SubSeq(s, 4, Len(s)))
         IN  [ok |-> rest.ok, value |-> <<PercentEscapes[toLowerCase(SubSeq(s, 2, 3))]>> \o rest.value]
  ELSE [ok |-> FALSE, value |-> <<>>]

(***************************************************************************)
(* GET /download/...                                                       *)
(***************************************************************************)

\* faulty variant: the confinement check made before the validity check
downloadMiddleware_ConfineFirst(raw) ==
  LET decoded       == decodeURIComponent(substring(<<"/">> \o raw, 1))
      sanitizedPath == sanitizePath(decoded.value)
  IN
  IF ~decoded.ok
    THEN [sanitized |-> NoString, opPath |-> NoString, log |-> <<"decode">>,
          status |-> 400, reason |-> "URI malformed", pc |-> "done"]
  ELSE IF ~isSecurePath(sanitizedPath, publicDir)
    THEN [sanitized |-> sanitizedPath, opPath |-> NoString,
          log |-> <<"decode", "sanitize", "confine">>,
          status |-> 403, reason |-> "Access denied", pc |-> "done"]
  ELSE IF sanitizedPath = <<>> \/ ~isValidFilename(sanitizedPath)
    THEN [sanitized |-> sanitizedPath, opPath |-> NoString,
          log |-> <<"decode", "sanitize", "confine", "validate">>,
          status |-> 400, reason |-> "Invalid path", pc |-> "done"]
  ELSE [sanitized |-> sanitizedPath, opPath |-> pathJoin(publicDir, sanitizedPath),
        log |-> <<"decode", "sanitize", "confine", "validate", "fs.stat">>,
        status |-> 0, reason |-> "", pc |-> "dlStat"]

\* faulty variant: the file looked up by its base name alone
downloadMiddleware_BasenameOnly(raw) ==
  LET decoded       == decodeURIComponent(substring(<<"/">> \o raw, 1))
      sanitizedPath == sanitizePath(decoded.value)
  IN
  IF ~decoded.ok
    THEN [sanitized |-> NoString, opPath |-> NoString, log |-> <<"decode">>,
          status |-> 400, reason |-> "URI malformed", pc |-> "done"]
  ELSE IF sanitizedPath = <<>> \/ ~isValidFilename(sanitizedPath)
    THEN [sanitized |-> sanitizedPath, opPath |-> NoString,
          log |-> <<"decode", "sanitize", "validate">>,
          status |-> 400, reason |-> "Invalid path", pc |-> "done"]
  ELSE IF ~isSecurePath(sanitizedPath, publicDir)
    THEN [sanitized |-> sanitizedPath, opPath |-> NoString,
          log |-> <<"decode", "sanitize", "validate", "confine">>,
          status |-> 403, reason |-> "Access denied", pc |-> "done"]
  ELSE [sanitized |-> sanitizedPath,
        opPath |-> pathJoin(publicDir, pathBasename(sanitizedPath)),
        log |-> <<"decode", "sanitize", "validate", "confine", "fs.stat">>,
        status |-> 0, reason |-> "", pc |-> "dlStat"]

\* the synchronous part of the download middleware for req.path = "/" + raw:
\* what it leaves behind, and whether it called fs.stat (pc = "dlStat")
downloadMiddleware(raw) ==
  LET reqPath == <<"/">> \o raw
      decoded == decodeURIComponent(substring(reqPath, 1))
  IN
  IF ~decoded.ok
    THEN \* the URIError reaches the error-handling middleware
         [sanitized |-> NoString, opPath |-> NoString, log |-> <<"decode">>,
          status |-> 400, reason |-> "URI malformed", pc |-> "done"]
  ELSE
  LET requestedPath == decoded.value
      sanitizedPath == sanitizePath(requestedPath)
      fullPath      == pathJoin(publicDir, sanitizedPath)
  IN
  IF sanitizedPath = <<>> \/ ~isValidFilename(sanitizedPath)
    THEN [sanitized |-> sanitizedPath, opPath |-> NoString,
          log |-> <<"decode", "sanitize", "validate">>,
          status |-> 400, reason |-> "Invalid path", pc |-> "done"]
  ELSE IF ~isSecurePath(sanitizedPath, publicDir)
    THEN [sanitized |-> sanitizedPath, opPath |-> NoString,
          log |-> <<"decode", "sanitize", "validate", "confine">>,
          status |-> 403, reason |-> "Access denied", pc |-> "done"]
  ELSE [sanitized |-> sanitizedPath, opPath |-> fullPath,
        log |-> <<"decode", "sanitize", "validate", "confine", "fs.stat">>,
        status |-> 0, reason |-> "", pc |-> "dlStat"]

\* faulty variant: only the stat error is checked, not stats.isFile()
downloadStatCallback_ExistsOnly(f, fullPath) ==
  IF fsStat(f, fullPath) = "none"
    THEN [log |-> <<>>, status |-> 404, reason |-> "File not found", pc |-> "done"]
  ELSE IF ~isAllowedFileType(pathBasename(fullPath))
    THEN [log |-> <<"extension">>, status |-> 403, reason |-> "File type not allowed",
          pc |-> "done"]
  ELSE [log |-> <<"extension", "next">>, status |-> 0, reason |-> "", pc |-> "dlStatic"]

\* faulty variant: the whitelist consulted before the result of fs.stat
downloadStatCallback_ExtensionFirst(f, fullPath) ==
  IF ~isAllowedFileType(pathBasename(fullPath))
    THEN [log |-> <<"extension">>, status |-> 403, reason |-> "File type not allowed",
          pc |-> "done"]
  ELSE IF fsStat(f, fullPath) # "file"
    THEN [log |-> <<"extension">>, status |-> 404, reason |-> "File not found",
          pc |-> "done"]
  ELSE [log |-> <<"extension", "next">>, status |-> 0, reason |-> "", pc |-> "dlStatic"]

\* the fs.stat callback of the download middleware
downloadStatCallback(f, fullPath) ==
  LET kind == fsStat(f, fullPath) IN
  IF kind # "file"
    THEN [log |-> <<>>, status |-> 404, reason |-> "File not found", pc |-> "done"]
  ELSE LET filename == pathBasename(fullPath) IN
    IF ~isAllowedFileType(filename)
      THEN [log |-> <<"extension">>, status |-> 403, reason |-> "File type not allowed",
            pc |-> "done"]
    ELSE [log |-> <<"extension", "next">>, status |-> 0, reason |-> "", pc |-> "dlStatic"]

DownloadMiddleware ==
  /\ mode = "idle"
  /\ \E raw \in RawInputs :
       LET r == downloadMiddleware(raw) IN
       /\ rawPath' = raw
       /\ sanitized' = r.sanitized
       /\ opPath' = r.opPath
       /\ log' = r.log
       /\ status' = r.status
       /\ reason' = r.reason
       /\ pc' = r.pc
  /\ mode' = "download"
  /\ UNCHANGED <<arg, arg2, ret, ret2, rawName, finalName, fs,
               listingVars, otherVars>>

DownloadStatCallback ==
  /\ mode = "download" /\ pc = "dlStat"
  /\ LET r == downloadStatCallback(fs, opPath) IN
       /\ log' = log \o r.log
       /\ status' = r.status
       /\ reason' = r.reason
       /\ pc' = r.pc
  /\ UNCHANGED <<mode, arg, arg2, ret, ret2, rawPath, rawName, sanitized, opPath, finalName, fs,
               listingVars, otherVars>>

\* send's UP_PATH_REGEXP: a ".." segment between separators or string ends
hasUpPath(p) ==
  \E i \in 1..(Len(p) - 1) :
    /\ SubSeq(p, i, i + 1) = DotDot
    /\ (i = 1 \/ p[i - 1] \in {"/", "\\"})
    /\ (i + 1 = Len(p) \/ p[i + 2] \in {"/", "\\"})

\* send's containsDotFile: a segment longer than one character that begins with a dot
containsDotFile(parts) ==
  \E i \in 1..Len(parts) : Len(parts[i]) > 1 /\ parts[i][1] = "."

\* express.static(publicDir) for the request path "/" + raw: the path is
\* decoded and resolved under the root by the static handler itself; a
\* malformed, traversing, hidden or missing path falls through to the
\* routes below, which answer 404 for /download/ paths
expressStatic(raw, f) ==
  LET decoded == decodeURIComponent(<<"/">> \o raw)
      notFound == [status |-> 404, served |-> NoString]
  IN
  IF ~decoded.ok \/ "NUL" \in Seq2Set(decoded.value) THEN notFound
  ELSE
  LET rel   == pathNormalize(<<".", "/">> \o decoded.value)
      parts == splitSlash(rel)
      full  == pathNormalize(pathJoin(publicDir, rel))
      index == pathJoin(full, Str("index.html"))
  IN
  IF hasUpPath(rel) THEN notFound
  ELSE IF containsDotFile(parts) THEN notFound
  ELSE IF rel[Len(rel)] = "/"
    THEN IF fsStat(f, index) \in {"file", "special"}
           THEN [status |-> 200, served |-> index]
         ELSE notFound
  ELSE IF fsStat(f, full) = "none" THEN notFound
  ELSE IF fsStat(f, full) = "dir" THEN [status |-> 301, served |-> NoString]
  ELSE [status |-> 200, served |-> full]

\* the static handler runs after the middleware called next()
ExpressStatic ==
  /\ mode = "download" /\ pc = "dlStatic"
  /\ LET r == expressStatic(rawPath, fs) IN
       /\ status' = r.status
       /\ served' = r.served
       /\ reason' = IF r.status = 404 THEN "Not Found" ELSE ""
  /\ pc' = "dlSent"
  /\ UNCHANGED <<mode, arg, arg2, ret, ret2, rawPath, rawName, sanitized, opPath, finalName, fs, log,
                 listingVars, linked, uploadsVars, naming, clientVars>>

(***************************************************************************)
(* GET /<directory>                                                        *)
(***************************************************************************)

\* handleDirectoryListing up to its fs.readdir call, for req.path = "/" + raw
handleDirectoryListing(raw, f) ==
  LET reqPath       == <<"/">> \o raw
      requestedPath == substring(reqPath, 1)
      sanitizedPath == sanitizePath(requestedPath)
      currentDir    == pathJoin(publicDir, sanitizedPath)
      checked       == IF sanitizedPath # <<>> THEN <<"sanitize", "confine">>
                       ELSE <<"sanitize">>
  IN
  IF sanitizedPath # <<>> /\ ~isSecurePath(sanitizedPath, publicDir)
    THEN [sanitized |-> sanitizedPath, opPath |-> NoString, log |-> checked,
          status |-> 403, reason |-> "Access denied", pc |-> "done"]
  ELSE IF ~fsExists(f, currentDir)
    THEN [sanitized |-> sanitizedPath, opPath |-> currentDir,
          log |-> checked \o <<"fs.existsSync">>,
          status |-> 404, reason |-> "Directory not found", pc |-> "done"]
  ELSE IF fsStat(f, currentDir) # "dir"
    THEN [sanitized |-> sanitizedPath, opPath |-> currentDir,
          log |-> checked \o <<"fs.existsSync", "fs.statSync">>,
          status |-> 400, reason |-> "Path is not a directory", pc |-> "done"]
  ELSE [sanitized |-> sanitizedPath, opPath |-> currentDir,
        log |-> checked \o <<"fs.existsSync", "fs.statSync", "fs.readdir">>,
        status |-> 0, reason |-> "", pc |-> "lsReaddir"]

HandleDirectoryListing ==
  /\ mode = "idle"
  /\ \E raw \in RawInputs :
       LET r == handleDirectoryListing(raw, fs) IN
       /\ rawPath' = raw
       /\ sanitized' = r.sanitized
       /\ opPath' = r.opPath
       /\ log' = r.log
       /\ status' = r.status
       /\ reason' = r.reason
       /\ pc' = r.pc
  /\ mode' = "listing"
  /\ UNCHANGED <<arg, arg2, ret, ret2, rawName, finalName, fs,
               listingVars, otherVars>>

(***************************************************************************)
(* GET /<directory>, continued: fs.readdir, its callback, the per-file     *)
(* fs.stat callbacks and the Promise.all that renders the page.  The       *)
(* presentation-only fields of an entry (icon, formattedSize) are left out.*)
(***************************************************************************)

\* the names of the public tree in the order the directory blocks hold them
diskOrder ==
  << Str("p.js"), Str("p"), Str(".js"), Str("pp.js"), Str("p<.js"), Str("d"), Str("pp"),
     Str("p~.js"), Str("p.p"), Str("p.js..") >>

reverse(seq) == [i \in 1..Len(seq) |-> seq[Len(seq) + 1 - i]]

\* fs.readdir promises no order: the model lets it go through the
\* directory forwards or backwards
readdirOrders == { diskOrder, reverse(diskOrder) }

\* the names fs.readdir finds in directory dir of filesystem f
readdir(f, dir, order) ==
  SelectSeq(order, LAMBDA n : (stripTrailingSlash(dir) \o <<"/">> \o n) \in DOMAIN f)

\* `${sanitizedPath}/${item}` or item
itemPathField(sanitizedPath, item) ==
  IF sanitizedPath # <<>> THEN sanitizedPath \o <<"/">> \o item ELSE item

\* faulty variant: the name and extension checks applied to directories too
RECURSIVE forEachItem_FilterDirectories(_, _, _, _)
forEachItem_FilterDirectories(f, currentDir, sanitizedPath, names) ==
  IF names = <<>> THEN [threw |-> FALSE, validItems |-> <<>>]
  ELSE
    LET item     == Head(names)
        itemPath == pathJoin(currentDir, item)
        kind     == fsStat(f, itemPath)
        rest     == forEachItem_FilterDirectories(f, currentDir, sanitizedPath, Tail(names))
        sanitizedItem == sanitizeFilename(item)
        kept     == /\ kind \in {"dir", "file"}
                    /\ sanitizedItem # <<>>
                    /\ isValidFilename(sanitizedItem)
                    /\ isAllowedFileType(sanitizedItem)
    IN
    IF kind = "none" \/ rest.threw THEN [threw |-> TRUE, validItems |-> <<>>]
    ELSE IF kept
      THEN [threw |-> FALSE,
            validItems |-> <<[name |-> item, isDirectory |-> kind = "dir",
                              path |-> itemPathField(sanitizedPath, item)]>>
                             \o rest.validItems]
    ELSE rest

\* files.forEach of the readdir callback: the items kept, or threw = TRUE
\* when an fs.statSync fails (nothing catches its exception)
RECURSIVE forEachItem(_, _, _, _)
forEachItem(f, currentDir, sanitizedPath, names) ==
  IF names = <<>> THEN [threw |-> FALSE, validItems |-> <<>>]
  ELSE
    LET item     == Head(names)
        itemPath == pathJoin(currentDir, item)
        kind     == fsStat(f, itemPath)
        rest     == forEachItem(f, currentDir, sanitizedPath, Tail(names))
    IN
    IF kind = "none" \/ rest.threw THEN [threw |-> TRUE, validItems |-> <<>>]
    ELSE IF kind = "dir"
      THEN [threw |-> FALSE,
            validItems |-> <<[name |-> item, isDirectory |-> TRUE,
                              path |-> itemPathField(sanitizedPath, item)]>>
                             \o rest.validItems]
    ELSE IF kind = "file"
      THEN LET sanitizedItem == sanitizeFilename(item) IN
           IF /\ sanitizedItem # <<>>
              /\ isValidFilename(sanitizedItem)
              /\ isAllowedFileType(sanitizedItem)
             THEN [threw |-> FALSE,
                   validItems |-> <<[name |-> item, isDirectory |-> FALSE,
                                     path |-> itemPathField(sanitizedPath, item)]>>
                                    \o rest.validItems]
           ELSE rest
    ELSE rest

\* what a settled promise holds for a dropped item
Null == [isNull |-> TRUE]

Pending == [settled |-> FALSE]

Settled(value) == [settled |-> TRUE, value |-> value]

\* the promise executor of filePromises: a directory resolves at once, a
\* file waits for its fs.stat callback
promiseExecutor(item) ==
  IF item.isDirectory
    THEN Settled([name |-> item.name, isDirectory |-> TRUE, path |-> item.path,
                  type |-> Str("Folder")])
  ELSE Pending

\* stats.size and stats.mtime of the file at path p: the values the
\* filesystem holds for it
statsSize(p) == <<"size", p>>
statsMtime(p) == <<"mtime", p>>

\* Date.prototype.toLocaleString: the date written in the server's locale
toLocaleString(t) == <<"toLocaleString", t>>

\* path.extname(name).substring(1).toUpperCase() || "FILE"
extensionField(name) ==
  LET e == toUpperCase(substring(extname(name), 1))
  IN  IF e = <<>> THEN Str("FILE") ELSE e

\* faulty variant: the extension left in the case it has in the name
statCallback_KeepCase(f, currentDir, item) ==
  LET filePath == pathJoin(currentDir, item.name)
  IN  IF fsStat(f, filePath) # "file" THEN Null
      ELSE [name |-> item.name, path |-> item.path, size |-> statsSize(filePath),
            modified |-> toLocaleString(statsMtime(filePath)), isDirectory |-> FALSE,
            extension |-> IF substring(extname(item.name), 1) = <<>> THEN Str("FILE")
                          ELSE substring(extname(item.name), 1)]

\* the fs.stat callback of one file promise: the value it resolves with
statCallback(f, currentDir, item) ==
  LET filePath == pathJoin(currentDir, item.name)
  IN  IF fsStat(f, filePath) # "file" THEN Null
      ELSE [name |-> item.name, path |-> item.path, size |-> statsSize(filePath),
            modified |-> toLocaleString(statsMtime(filePath)), isDirectory |-> FALSE,
            extension |-> extensionField(item.name)]

\* faulty variant: the entries rendered in one run, not folders first
renderOrder_Ungrouped(values) ==
  SelectSeq(values, LAMBDA item : item # Null)

\* the then-handler of Promise.all: the non-null values, folders first and
\* files after them, as the page template writes them
renderOrder(values) ==
  LET nonNull == SelectSeq(values, LAMBDA item : item # Null)
      folders == SelectSeq(nonNull, LAMBDA item : item.isDirectory)
      fileEntries == SelectSeq(nonNull, LAMBDA item : ~item.isDirectory)
  IN  folders \o fileEntries

\* the thread pool carries out fs.readdir: it fails, or it enumerates the
\* directory as it is at this moment
FsReaddir ==
  /\ mode = "listing" /\ pc = "lsReaddir"
  /\ \/ /\ pc' = "lsReaddirError"
        /\ files' = files
     \/ /\ pc' = "lsReaddirDone"
        /\ \E order \in readdirOrders : files' = readdir(fs, opPath, order)
  /\ UNCHANGED <<otherVars, mode, arg, arg2, ret, ret2, rawPath, rawName, sanitized, opPath, finalName,
                 log, status, reason, fs, validItems, itemData, settleOrder, rendered,
                 unlinked>>

\* the callback of fs.readdir, up to the call of Promise.all
ReaddirCallback ==
  /\ mode = "listing" /\ pc \in {"lsReaddirError", "lsReaddirDone"}
  /\ IF pc = "lsReaddirError"
       THEN /\ status' = 500 /\ reason' = "Error reading directory" /\ pc' = "done"
            /\ log' = log
            /\ UNCHANGED <<validItems, itemData>>
     ELSE LET r == forEachItem(fs, opPath, sanitized, files) IN
          IF r.threw
            THEN \* the exception of fs.statSync leaves the callback: no response
                 /\ status' = 0 /\ reason' = "statSync threw" /\ pc' = "thrown"
                 /\ log' = Append(log, "fs.statSync")
                 /\ UNCHANGED <<validItems, itemData>>
          ELSE /\ validItems' = r.validItems
               /\ itemData' = [i \in 1..Len(r.validItems) |-> promiseExecutor(r.validItems[i])]
               /\ status' = 0 /\ reason' = "" /\ pc' = "lsStats"
               /\ log' = Append(log, "fs.statSync")
  /\ UNCHANGED <<otherVars, mode, arg, arg2, ret, ret2, rawPath, rawName, sanitized, opPath, finalName,
                 fs, files, settleOrder, rendered, unlinked>>

\* the fs.stat callback of one pending file promise; the callbacks come in
\* any order
ListingStatCallback ==
  /\ mode = "listing" /\ pc = "lsStats"
  /\ \E i \in 1..Len(itemData) :
       /\ ~itemData[i].settled
       /\ itemData' = [itemData EXCEPT ![i] = Settled(statCallback(fs, opPath, validItems[i]))]
       /\ settleOrder' = Append(settleOrder, i)
  /\ UNCHANGED <<otherVars, mode, pc, arg, arg2, ret, ret2, rawPath, rawName, sanitized, opPath,
                 finalName, log, status, reason, fs, files, validItems, rendered, unlinked>>

\* Promise.all(filePromises).then(...): every promise has settled, the page
\* is built and sent
PromiseAllThen ==
  /\ mode = "listing" /\ pc = "lsStats"
  /\ \A i \in 1..Len(itemData) : itemData[i].settled
  /\ rendered' = renderOrder([i \in 1..Len(itemData) |-> itemData[i].value])
  /\ status' = 200 /\ pc' = "done"
  /\ log' = Append(log, "res.send")
  /\ UNCHANGED <<otherVars, mode, arg, arg2, ret, ret2, rawPath, rawName, sanitized, opPath, finalName,
                 reason, fs, files, validItems, itemData, settleOrder, unlinked>>

\* the escapes encodeURIComponent writes for the printable characters that
\* are not letters, digits or one of - _ . ! ~ * ' ( )
UriEscapes ==
  ("/" :> Str("%2F")) @@ ("\\" :> Str("%5C")) @@ ("%" :> Str("%25")) @@ ("<" :> Str("%3C"))
    @@ (">" :> Str("%3E")) @@ (":" :> Str("%3A")) @@ ("\"" :> Str("%22"))
    @@ ("|" :> Str("%7C")) @@ ("?" :> Str("%3F")) @@ (" " :> Str("%20"))

\* encodeURIComponent(s)
RECURSIVE encodeURIComponent(_)
encodeURIComponent(s) ==
  IF s = <<>> THEN <<>>
  ELSE (IF s[1] \in DOMAIN UriEscapes THEN UriEscapes[s[1]] ELSE <<s[1]>>)
         \o encodeURIComponent(Tail(s))

\* the user follows the Direct Link of one file entry of the page sent:
\* GET /download/<encodeURIComponent(file.path)> reaches the download
\* middleware; the page is one that was requested by the directory's plain
\* relative path
FollowDownloadLink ==
  /\ mode = "listing" /\ pc = "done" /\ status = 200
  /\ rawPath = sanitized
  /\ \E i \in 1..Len(rendered) :
       /\ ~rendered[i].isDirectory
       /\ linked' = rendered[i]
       /\ LET raw == encodeURIComponent(rendered[i].path)
              r   == downloadMiddleware(raw)
          IN  /\ rawPath' = raw
              /\ sanitized' = r.sanitized
              /\ opPath' = r.opPath
              /\ log' = r.log
              /\ status' = r.status
              /\ reason' = r.reason
              /\ pc' = r.pc
  /\ mode' = "download"
  /\ UNCHANGED <<arg, arg2, ret, ret2, rawName, finalName, fs, listingVars, served,
                 uploadsVars, naming, clientVars>>

\* another process removes one file of the directory being listed, at any
\* moment between the fs.readdir call and the response
Unlink ==
  /\ mode = "listing" /\ pc \in {"lsReaddir", "lsReaddirDone", "lsStats"}
  /\ unlinked = NoString
  /\ \E q \in DOMAIN fs :
       /\ fs[q] # "dir"
       /\ \E n \in Seq2Set(diskOrder) : q = stripTrailingSlash(opPath) \o <<"/">> \o n
       /\ fs' = [r \in DOMAIN fs \ {q} |-> fs[r]]
       /\ unlinked' = q
  /\ UNCHANGED <<otherVars, mode, pc, arg, arg2, ret, ret2, rawPath, rawName, sanitized, opPath,
                 finalName, log, status, reason, files, validItems, itemData, settleOrder,
                 rendered>>

(***************************************************************************)
(* POST /upload: multer calls fileFilter, then the storage engine's        *)
(* destination and filename, then writes the file                          *)
(***************************************************************************)

\* faulty variant: every name that is not empty after sanitizing is let
\* through to the storage engine
fileFilter_NonEmptyOnly(originalname) == sanitizeFilename(originalname) # <<>>

\* upload.fileFilter: does it accept file.originalname
fileFilter(originalname) ==
  LET sanitizedName == sanitizeFilename(originalname)
  IN  ~( \/ sanitizedName = <<>>
         \/ ~isValidFilename(sanitizedName)
         \/ ~isAllowedFileType(sanitizedName) )

\* faulty variant: a missing target directory is not created
destination_NoMkdir(uploadPath, f) ==
  LET sanitizedPath == sanitizePath(uploadPath)
      targetDir     == pathJoin(uploadsDir, sanitizedPath)
      checked       == IF sanitizedPath # <<>> THEN <<"sanitize", "confine">>
                       ELSE <<"sanitize">>
  IN
  IF sanitizedPath # <<>> /\ ~isSecurePath(sanitizedPath, uploadsDir)
    THEN [sanitized |-> sanitizedPath, opPath |-> NoString, log |-> checked, fs |-> f,
          status |-> 400, reason |-> "Invalid upload path", pc |-> "done"]
  ELSE [sanitized |-> sanitizedPath, opPath |-> targetDir,
        log |-> checked \o <<"fs.existsSync">>, fs |-> f,
        status |-> 0, reason |-> "", pc |-> "upFilename"]

\* storage.destination for req.body.uploadPath = uploadPath on filesystem f
destination(uploadPath, f) ==
  LET requestedPath == uploadPath
      sanitizedPath == sanitizePath(requestedPath)
      targetDir     == pathJoin(uploadsDir, sanitizedPath)
      checked       == IF sanitizedPath # <<>> THEN <<"sanitize", "confine">>
                       ELSE <<"sanitize">>
  IN
  IF sanitizedPath # <<>> /\ ~isSecurePath(sanitizedPath, uploadsDir)
    THEN [sanitized |-> sanitizedPath, opPath |-> NoString, log |-> checked, fs |-> f,
          status |-> 400, reason |-> "Invalid upload path", pc |-> "done"]
  ELSE IF fsExists(f, targetDir)
    THEN [sanitized |-> sanitizedPath, opPath |-> targetDir,
          log |-> checked \o <<"fs.existsSync">>, fs |-> f,
          status |-> 0, reason |-> "", pc |-> "upFilename"]
  ELSE IF mkdirFails(f, targetDir)
    THEN \* fs.mkdirSync throws; the exception leaves the callback, cb is not called
         [sanitized |-> sanitizedPath, opPath |-> targetDir,
          log |-> checked \o <<"fs.existsSync", "fs.mkdirSync">>, fs |-> f,
          status |-> 0, reason |-> "mkdirSync threw", pc |-> "thrown"]
  ELSE [sanitized |-> sanitizedPath, opPath |-> targetDir,
        log |-> checked \o <<"fs.existsSync", "fs.mkdirSync">>,
        fs |-> mkdirRecursive(f, targetDir),
        status |-> 0, reason |-> "", pc |-> "upFilename"]

DigitSeq == Str("0123456789")

\* the decimal text of n, as a template literal prints it
RECURSIVE decimal(_)
decimal(n) ==
  IF n < 10 THEN <<DigitSeq[n + 1]>>
  ELSE decimal(n \div 10) \o <<DigitSeq[(n % 10) + 1]>>

\* s.slice(0, -k); s.slice(0, -0) is s.slice(0, 0)
sliceOffEnd(s, k) == IF k = 0 THEN <<>> ELSE SubSeq(s, 1, Len(s) - k)

\* faulty variant: each suffix added to the name tried last, not to the
\* sanitized name
RECURSIVE suffixLoop_Cumulative(_, _, _, _, _)
suffixLoop_Cumulative(f, fullDir, sanitizedName, finalNameNow, counter) ==
  IF fsExists(f, pathJoin(fullDir, finalNameNow))
    THEN LET ext            == extname(finalNameNow)
             nameWithoutExt == sliceOffEnd(finalNameNow, Len(ext))
         IN  suffixLoop_Cumulative(f, fullDir, sanitizedName,
                        nameWithoutExt \o <<"_">> \o decimal(counter) \o ext, counter + 1)
  ELSE finalNameNow

\* the while loop of storage.filename
RECURSIVE suffixLoop(_, _, _, _, _)
suffixLoop(f, fullDir, sanitizedName, finalNameNow, counter) ==
  IF fsExists(f, pathJoin(fullDir, finalNameNow))
    THEN LET ext            == extname(sanitizedName)
             nameWithoutExt == sliceOffEnd(sanitizedName, Len(ext))
         IN  suffixLoop(f, fullDir, sanitizedName,
                        nameWithoutExt \o <<"_">> \o decimal(counter) \o ext, counter + 1)
  ELSE finalNameNow

\* storage.filename for file.originalname and req.body.uploadPath
filename(originalname, uploadPath, f) ==
  LET sanitizedName == sanitizeFilename(originalname) IN
  IF \/ sanitizedName = <<>>
     \/ ~isValidFilename(sanitizedName)
     \/ ~isAllowedFileType(sanitizedName)
    THEN [finalName |-> NoString, status |-> 400, reason |-> "Invalid file type or name",
          pc |-> "done"]
  ELSE LET sanitizedDir == sanitizePath(uploadPath)
           fullDir      == pathJoin(uploadsDir, sanitizedDir)
       IN  [finalName |-> suffixLoop(f, fullDir, sanitizedName, sanitizedName, 1),
            status |-> 0, reason |-> "", pc |-> "upWrite"]

UploadFileFilter ==
  /\ mode = "idle"
  /\ \E in \in UploadInputs :
       /\ rawPath' = in[1]
       /\ rawName' = in[2]
       /\ IF fileFilter(in[2])
            THEN /\ pc' = "upDestination"
                 /\ status' = 0
                 /\ reason' = ""
            ELSE /\ pc' = "done"
                 /\ status' = 400
                 /\ reason' = "File type not allowed"
  /\ mode' = "upload"
  /\ log' = <<"fileFilter">>
  /\ UNCHANGED <<arg, arg2, ret, ret2, sanitized, opPath, finalName, fs,
               listingVars, otherVars>>

UploadDestination ==
  /\ mode = "upload" /\ pc = "upDestination"
  /\ LET r == destination(rawPath, fs) IN
       /\ sanitized' = r.sanitized
       /\ opPath' = r.opPath
       /\ log' = log \o r.log
       /\ fs' = r.fs
       /\ status' = r.status
       /\ reason' = r.reason
       /\ pc' = r.pc
  /\ UNCHANGED <<mode, arg, arg2, ret, ret2, rawPath, rawName, finalName,
               listingVars, otherVars>>

UploadFilename ==
  /\ mode = "upload" /\ pc = "upFilename"
  /\ LET r == filename(rawName, rawPath, fs) IN
       /\ finalName' = r.finalName
       /\ status' = r.status
       /\ reason' = r.reason
       /\ pc' = r.pc
  /\ log' = Append(log, "filename")
  /\ UNCHANGED <<mode, arg, arg2, ret, ret2, rawPath, rawName, sanitized, opPath, fs,
               listingVars, otherVars>>

(***************************************************************************)
(* storage.filename as a function of the client name, in an uploads        *)
(* directory that holds files with names as long as the validator allows   *)
(***************************************************************************)

\* a whitelisted name of n characters
LongName(n) == Repeat("p", n - 3) \o Str(".js")

\* the lengths next to the validator's limit
LongLengths == { maxNameLength - 2, maxNameLength - 1, maxNameLength, maxNameLength + 1 }

\* the client names: short ones, one the sanitizer shortens, one of a type
\* off the whitelist, and the long ones
FilenameInputs ==
  { Str("p.js"), Str("pp.js"), Str("p<.js"), Str("p.p"), Str("p/p.js") }
    \cup { LongName(n) : n \in LongLengths }

\* the initial tree after uploads of the long names the validator accepts
NamingFs ==
  [ q \in DOMAIN InitialFs
          \cup { pathJoin(uploadsDir, LongName(n)) : n \in { k \in LongLengths : k <= maxNameLength } }
      |-> IF q \in DOMAIN InitialFs THEN InitialFs[q] ELSE "file" ]

CallFilename ==
  /\ mode = "idle"
  /\ \E originalname \in FilenameInputs :
       /\ arg' = originalname
       /\ ret' = filename(originalname, <<>>, NamingFs).finalName
  /\ mode' = "filename"
  /\ pc' = "returned"
  /\ UNCHANGED <<arg2, ret2, requestVars>>

NextPure ==
  \/ CallSanitizeFilename
  \/ CallSanitizeFilenameAgain
  \/ CallSanitizePath
  \/ CallSanitizePathAgain
  \/ CallIsValidFilename
  \/ CallIsAllowedFileType
  \/ CallIsSecurePath
  \/ CallFilename

SpecPure == InitPure /\ [][NextPure]_vars

(***************************************************************************)
(* Two uploads handled at the same time                                    *)
(***************************************************************************)

\* the multipart bodies of a POST /upload: a file part named by the client
\* and an uploadPath field, the field before or after the file part, the
\* file within or over the size limit; or no file part at all
UploadBodies ==
  { [hasFile |-> TRUE, originalname |-> nm, uploadPath |-> up, fileFirst |-> ff,
     tooLarge |-> tl] :
      nm \in {Str("p.js"), Str("p.p")},
      up \in {<<>>, Str("p"), Str("pp"), Str("../"), Str("p.js"), Str("p.js/p")},
      ff \in BOOLEAN, tl \in BOOLEAN }
  \cup { [hasFile |-> FALSE, originalname |-> NoString, uploadPath |-> Str("pp"),
          fileFirst |-> FALSE, tooLarge |-> FALSE] }

\* req.body.uploadPath || "" at the moment multer reaches the file part:
\* the body holds only the fields that came before it
bodyUploadPath(body) == IF body.fileFirst THEN <<>> ELSE body.uploadPath

\* f after a write stream has opened p with flag 'w': created, or truncated
openForWrite(f, p) == [ q \in DOMAIN f \cup {p} |-> IF q = p THEN "file" ELSE f[q] ]

\* f after fs.unlink(p)
unlink(f, p) == [ q \in DOMAIN f \ {p} |-> f[q] ]

\* the error-handling middleware: the JSON error response for an error
errorHandler(code) ==
  IF code = "LIMIT_FILE_SIZE" THEN [status |-> 400, error |-> "File too large (max 100MB)"]
  ELSE IF code = "LIMIT_FILE_COUNT" THEN [status |-> 400, error |-> "Too many files"]
  ELSE [status |-> 400, error |-> code]

\* the route handler of POST /upload, after upload.single("file")
uploadHandler(u) ==
  IF ~u.hasFile
    THEN [u EXCEPT !.pc = "done", !.status = 400, !.error = "No file uploaded"]
  ELSE [u EXCEPT !.pc = "done", !.status = 200, !.responsePath = u.uploadPath]

\* multer reaches the file part of request r: fileFilter, then the storage
\* engine's destination and filename callbacks, then fs.createWriteStream
\* on the joined path; all of it runs in one turn of the event loop, the
\* stream's file is opened later
MulterFilePart(r) ==
  /\ mode = "uploads"
  /\ uploads[r].pc = "idle"
  /\ \E body \in UploadBodies :
       LET u0 == [IdleUpload EXCEPT !.hasFile = body.hasFile,
                                    !.originalname = body.originalname,
                                    !.uploadPath = body.uploadPath,
                                    !.fileFirst = body.fileFirst,
                                    !.tooLarge = body.tooLarge,
                                    !.bodyAtFile = bodyUploadPath(body)]
           d  == destination(u0.bodyAtFile, fs)
           n  == filename(u0.originalname, u0.bodyAtFile, d.fs)
       IN
       IF ~body.hasFile
         THEN /\ uploads' = [uploads EXCEPT ![r] = uploadHandler(u0)]
              /\ fs' = fs
       ELSE IF ~fileFilter(body.originalname)
         THEN /\ uploads' = [uploads EXCEPT ![r] =
                    [u0 EXCEPT !.pc = "done",
                               !.status = errorHandler("File type not allowed").status,
                               !.error = errorHandler("File type not allowed").error]]
              /\ fs' = fs
       ELSE IF d.pc = "done"
         THEN /\ uploads' = [uploads EXCEPT ![r] =
                    [u0 EXCEPT !.pc = "done",
                               !.status = errorHandler(d.reason).status,
                               !.error = errorHandler(d.reason).error]]
              /\ fs' = fs
       ELSE IF d.pc = "thrown"
         THEN /\ uploads' = [uploads EXCEPT ![r] = [u0 EXCEPT !.pc = "thrown"]]
              /\ fs' = fs
       ELSE IF n.pc = "done"
         THEN /\ uploads' = [uploads EXCEPT ![r] =
                    [u0 EXCEPT !.pc = "done", !.destination = d.opPath,
                               !.status = errorHandler(n.reason).status,
                               !.error = errorHandler(n.reason).error]]
              /\ fs' = d.fs
       ELSE /\ uploads' = [uploads EXCEPT ![r] =
                    [u0 EXCEPT !.pc = "opening", !.destination = d.opPath,
                               !.filename = n.finalName,
                               !.path = pathJoin(d.opPath, n.finalName)]]
            /\ fs' = d.fs
  /\ UNCHANGED <<mode, pc, arg, arg2, ret, ret2, rawPath, rawName, sanitized, opPath,
                 finalName, log, status, reason, listingVars, staticVars, owner, naming,
                 clientVars>>

\* the write stream of request r opens its file: with the default flag 'w'
\* the file is created, or truncated if it exists; the open fails if the
\* destination is not a directory or the path is one
WriteStreamOpen(r) ==
  /\ mode = "uploads"
  /\ uploads[r].pc = "opening"
  /\ LET u == uploads[r] IN
       IF fsStat(fs, u.destination) # "dir" \/ fsStat(fs, u.path) = "dir"
         THEN /\ uploads' = [uploads EXCEPT ![r] =
                    [u EXCEPT !.pc = "done",
                              !.status = errorHandler("open failed").status,
                              !.error = errorHandler("open failed").error]]
              /\ UNCHANGED <<fs, owner>>
       ELSE /\ uploads' = [uploads EXCEPT ![r] = [u EXCEPT !.pc = "writing"]]
            /\ fs' = openForWrite(fs, u.path)
            /\ owner' = [ q \in DOMAIN owner \cup {u.path} |->
                            IF q = u.path THEN r ELSE owner[q] ]
  /\ UNCHANGED <<mode, pc, arg, arg2, ret, ret2, rawPath, rawName, sanitized, opPath,
                 finalName, log, status, reason, listingVars, staticVars, naming,
                 clientVars>>

\* the file part of request r ends: over the size limit multer removes the
\* file it stored and passes LIMIT_FILE_SIZE to the error handler; otherwise
\* the route handler answers with the stored name and the uploadPath field
WriteStreamEnd(r) ==
  /\ mode = "uploads"
  /\ uploads[r].pc = "writing"
  /\ LET u == uploads[r] IN
       IF u.tooLarge
         THEN /\ uploads' = [uploads EXCEPT ![r] =
                    [u EXCEPT !.pc = "done",
                              !.status = errorHandler("LIMIT_FILE_SIZE").status,
                              !.error = errorHandler("LIMIT_FILE_SIZE").error]]
              /\ fs' = unlink(fs, u.path)
              /\ owner' = [ q \in DOMAIN owner \ {u.path} |-> owner[q] ]
       ELSE /\ uploads' = [uploads EXCEPT ![r] = uploadHandler(u)]
            /\ UNCHANGED <<fs, owner>>
  /\ UNCHANGED <<mode, pc, arg, arg2, ret, ret2, rawPath, rawName, sanitized, opPath,
                 finalName, log, status, reason, listingVars, staticVars, naming,
                 clientVars>>

InitUploads ==
  /\ mode = "uploads" /\ pc = "idle"
  /\ arg = NoString /\ arg2 = NoString /\ ret = NoString /\ ret2 = NoString
  /\ RequestIdle
  /\ fs = InitialFs

NextUploads ==
  \E r \in Requests :
    \/ MulterFilePart(r)
    \/ WriteStreamOpen(r)
    \/ WriteStreamEnd(r)

SpecUploads == InitUploads /\ [][NextUploads]_vars

(***************************************************************************)
(* The collision loop of storage.filename, one existence check at a time,  *)
(* while another process writes into the same directory                    *)
(***************************************************************************)

\* how many files the other process creates at most
MaxOtherWrites == 1001

\* the uploads whose names the loop resolves: client name and uploadPath
NamingInputs ==
  { <<nm, up>> : nm \in {Str("p.js"), Str("p"), Str("pp.js")}, up \in {<<>>, Str("p")} }

\* the body of the while loop: the next name to try
loopBody(sanitizedName, counter) ==
  LET ext            == extname(sanitizedName)
      nameWithoutExt == sliceOffEnd(sanitizedName, Len(ext))
  IN  nameWithoutExt \o <<"_">> \o decimal(counter) \o ext

\* storage.filename up to the loop: the name passed the three checks
FilenameStart ==
  /\ mode = "naming"
  /\ naming.pc = "idle"
  /\ \E in \in NamingInputs :
       LET sanitizedName == sanitizeFilename(in[1]) IN
       IF \/ sanitizedName = <<>>
          \/ ~isValidFilename(sanitizedName)
          \/ ~isAllowedFileType(sanitizedName)
         THEN naming' = [naming EXCEPT !.pc = "rejected", !.sanitizedName = sanitizedName]
       ELSE naming' = [naming EXCEPT !.pc = "loop",
                                     !.sanitizedName = sanitizedName,
                                     !.fullDir = pathJoin(uploadsDir, sanitizePath(in[2])),
                                     !.finalName = sanitizedName,
                                     !.counter = 1]
  /\ UNCHANGED <<mode, pc, arg, arg2, ret, ret2, rawPath, rawName, sanitized, opPath,
                 finalName, log, status, reason, fs, listingVars, staticVars, uploadsVars,
                 clientVars>>

\* one evaluation of the loop condition, and of the body if it holds
ExistsSyncCheck ==
  /\ mode = "naming"
  /\ naming.pc = "loop"
  /\ IF fsExists(fs, pathJoin(naming.fullDir, naming.finalName))
       THEN naming' = [naming EXCEPT !.finalName = loopBody(naming.sanitizedName, naming.counter),
                                     !.counter = naming.counter + 1,
                                     !.checks = naming.checks + 1]
     ELSE naming' = [naming EXCEPT !.pc = "done", !.checks = naming.checks + 1]
  /\ UNCHANGED <<mode, pc, arg, arg2, ret, ret2, rawPath, rawName, sanitized, opPath,
                 finalName, log, status, reason, fs, listingVars, staticVars, uploadsVars,
                 clientVars>>

\* another process creates the file the loop is about to look for
OtherWriterCreates ==
  /\ mode = "naming"
  /\ naming.pc = "loop"
  /\ naming.writes < MaxOtherWrites
  /\ ~fsExists(fs, pathJoin(naming.fullDir, naming.finalName))
  /\ fsStat(fs, naming.fullDir) = "dir"
  /\ fs' = openForWrite(fs, pathJoin(naming.fullDir, naming.finalName))
  /\ naming' = [naming EXCEPT !.writes = naming.writes + 1]
  /\ UNCHANGED <<mode, pc, arg, arg2, ret, ret2, rawPath, rawName, sanitized, opPath,
                 finalName, log, status, reason, listingVars, staticVars, uploadsVars,
                 clientVars>>

InitNaming ==
  /\ mode = "naming" /\ pc = "idle"
  /\ arg = NoString /\ arg2 = NoString /\ ret = NoString /\ ret2 = NoString
  /\ RequestIdle
  /\ fs = InitialFs

NextNaming ==
  \/ FilenameStart
  \/ ExistsSyncCheck
  \/ OtherWriterCreates

SpecNaming == InitNaming /\ [][NextNaming]_vars

(***************************************************************************)
(* The page's upload script: the listeners of the upload form, uploadFile, *)
(* closeUploadModal, the timers and the events of the XMLHttpRequests      *)
(***************************************************************************)

\* how many XMLHttpRequests one page creates at most
MaxXhrs == 2

\* validateFile's size limit in bytes
maxSize == 100 * 1024 * 1024

\* the files the user can drop or pick: two acceptable ones, one of a type
\* off the list and one over the size limit
ClientFiles ==
  { [name |-> Str("a.js"), size |-> 1], [name |-> Str("b.js"), size |-> 1],
    [name |-> Str("c.p"), size |-> 1], [name |-> Str("d.js"), size |-> maxSize + 1] }

\* s.endsWith(p)
endsWith(s, p) == Len(p) <= Len(s) /\ SubSeq(s, Len(s) - Len(p) + 1, Len(s)) = p

\* validateFile(file)
validateFile(file) ==
  IF file.size > maxSize THEN FALSE
  ELSE LET fileName == toLowerCase(file.name)
       IN  \E ext \in allowedExtensions : endsWith(fileName, ext)

\* a new XMLHttpRequest for file; cancelled records that closeUploadModal
\* took its cancel branch for this request
newXhr(file) == [file |-> file, readyState |-> "UNSENT", cancelled |-> FALSE]

\* xhr.abort(): a request that was sent is terminated; one that was never
\* opened is left as it is
abort(xhr) ==
  IF xhr.readyState = "OPENED" THEN [xhr EXCEPT !.readyState = "ABORTED"] ELSE xhr

\* closeUploadModal(): what it does to the upload state; the form reset
\* empties the file input
closeUploadModal ==
  /\ IF uploadInProgress /\ currentUploadXHR # 0
       THEN /\ xhrs' = [xhrs EXCEPT ![currentUploadXHR] =
                          [abort(xhrs[currentUploadXHR]) EXCEPT !.cancelled = TRUE]]
            /\ uploadInProgress' = FALSE
            /\ currentUploadXHR' = 0
     ELSE UNCHANGED <<xhrs, uploadInProgress, currentUploadXHR>>
  /\ fileInput' = NoString
  /\ selectedFile' = NoString
  /\ lastSelected' = NoString

serverVars ==
  <<pc, arg, arg2, ret, ret2, rawPath, rawName, sanitized, opPath, finalName, log, status,
    reason, fs, listingVars, staticVars, uploadsVars, naming>>

\* the 'drop' listener of the drop zone
Drop ==
  /\ mode = "page"
  /\ \E file \in ClientFiles :
       /\ selectedFile' = file
       /\ lastSelected' = file
  /\ UNCHANGED <<mode, serverVars, uploadInProgress, currentUploadXHR, fileInput, xhrs, timers>>

\* the user picks a file in the file dialog; the 'change' listener of the
\* file input only shows its name
FileInputChange ==
  /\ mode = "page"
  /\ \E file \in ClientFiles :
       /\ fileInput' = file
       /\ lastSelected' = file
  /\ UNCHANGED <<mode, serverVars, uploadInProgress, currentUploadXHR, selectedFile, xhrs,
                 timers>>

\* the 'submit' listener of the form, and uploadFile when it calls it
Submit ==
  /\ mode = "page"
  /\ Len(xhrs) < MaxXhrs
  /\ LET fileToUpload == IF selectedFile # NoString THEN selectedFile
                         ELSE IF fileInput # NoString THEN fileInput
                         ELSE NoString
     IN  IF uploadInProgress \/ fileToUpload = NoString \/ ~validateFile(fileToUpload)
           THEN UNCHANGED <<uploadInProgress, currentUploadXHR, xhrs, timers>>
         ELSE /\ uploadInProgress' = TRUE
              /\ xhrs' = Append(xhrs, newXhr(fileToUpload))
              /\ currentUploadXHR' = Len(xhrs) + 1
              /\ timers' = timers \cup {[kind |-> "send", xhr |-> Len(xhrs) + 1]}
  /\ UNCHANGED <<mode, serverVars, selectedFile, fileInput, lastSelected>>

\* the Cancel button, or a click outside the modal
CloseUploadModal ==
  /\ mode = "page"
  /\ closeUploadModal
  /\ UNCHANGED <<mode, serverVars, timers>>

\* the 100 ms timer of uploadFile fires: xhr.open, xhr.send
SendTimer ==
  /\ mode = "page"
  /\ \E t \in timers :
       /\ t.kind = "send"
       /\ timers' = timers \ {t}
       /\ xhrs' = [xhrs EXCEPT ![t.xhr] = [@ EXCEPT !.readyState = "OPENED"]]
  /\ UNCHANGED <<mode, serverVars, uploadInProgress, currentUploadXHR, selectedFile,
                 fileInput, lastSelected>>

\* the 'load' listener of request i for a 200 response: completeUpload
XhrLoadSuccess ==
  /\ mode = "page"
  /\ \E i \in 1..Len(xhrs) :
       /\ xhrs[i].readyState = "OPENED"
       /\ xhrs' = [xhrs EXCEPT ![i] = [@ EXCEPT !.readyState = "DONE"]]
  /\ uploadInProgress' = FALSE
  /\ currentUploadXHR' = 0
  /\ timers' = timers \cup {[kind |-> "close", xhr |-> 0]}
  /\ UNCHANGED <<mode, serverVars, selectedFile, fileInput, lastSelected>>

\* the 'load' listener for another status, the 'error' and the 'timeout'
\* listener of request i: resetUploadState
XhrFailure ==
  /\ mode = "page"
  /\ \E i \in 1..Len(xhrs) :
       /\ xhrs[i].readyState = "OPENED"
       /\ xhrs' = [xhrs EXCEPT ![i] = [@ EXCEPT !.readyState = "DONE"]]
  /\ uploadInProgress' = FALSE
  /\ currentUploadXHR' = 0
  /\ UNCHANGED <<mode, serverVars, selectedFile, fileInput, lastSelected, timers>>

\* the 2 s timer of completeUpload fires: closeUploadModal, then the timer
\* of the reload
CloseTimer ==
  /\ mode = "page"
  /\ \E t \in timers :
       /\ t.kind = "close"
       /\ timers' = (timers \ {t}) \cup {[kind |-> "reload", xhr |-> 0]}
  /\ closeUploadModal
  /\ UNCHANGED <<mode, serverVars>>

\* the 300 ms timer fires: window.location.reload(); the page and its
\* requests and timers are gone, the new page runs DOMContentLoaded
ReloadTimer ==
  /\ mode = "page"
  /\ \E t \in timers : t.kind = "reload"
  /\ uploadInProgress' = FALSE
  /\ currentUploadXHR' = 0
  /\ selectedFile' = NoString
  /\ fileInput' = NoString
  /\ xhrs' = <<>>
  /\ timers' = {}
  /\ lastSelected' = NoString
  /\ UNCHANGED <<mode, serverVars>>

InitClient ==
  /\ mode = "page" /\ pc = "idle"
  /\ arg = NoString /\ arg2 = NoString /\ ret = NoString /\ ret2 = NoString
  /\ RequestIdle
  /\ fs = InitialFs

NextClient ==
  \/ Drop
  \/ FileInputChange
  \/ Submit
  \/ CloseUploadModal
  \/ SendTimer
  \/ XhrLoadSuccess
  \/ XhrFailure
  \/ CloseTimer
  \/ ReloadTimer

SpecClient == InitClient /\ [][NextClient]_vars

(***************************************************************************)
(* The server: one request, from arrival to the hand-off of the response,  *)
(* the static file handler or the file write                               *)
(***************************************************************************)

Init == InitPure

Next ==
  \/ DownloadMiddleware
  \/ DownloadStatCallback
  \/ ExpressStatic
  \/ HandleDirectoryListing
  \/ FsReaddir
  \/ ReaddirCallback
  \/ ListingStatCallback
  \/ PromiseAllThen
  \/ FollowDownloadLink
  \/ Unlink
  \/ UploadFileFilter
  \/ UploadDestination
  \/ UploadFilename

Spec == Init /\ [][Next]_vars

(***************************************************************************)
(* Properties of the pure functions (checked under SpecPure)               *)
(***************************************************************************)

SanitizerModes == {"sanitizeFilename", "sanitizePath"}

\* C2: isSecurePath(candidate, root) returns true only if the resolved
\* candidate equals the resolved root or begins with the resolved root
\* followed by a path separator; a sibling of the root whose name has the
\* root's name as a prefix is not accepted.
C2_SeparatorOrEqual ==
  (mode = "isSecurePath" /\ ret = TRUE) =>
     LET resolvedPath    == pathResolve(arg2, arg)
         resolvedBaseDir == pathResolve(arg2, <<>>)
     IN  \/ resolvedPath = resolvedBaseDir
         \/ startsWith(resolvedPath, resolvedBaseDir \o <<"/">>)

\* the characters C3 names as the only legal ones
C3_LegalChars == Upper \cup Lower \cup Digit \cup {".", "_", "-", " ", "/"}

\* C3: isValidFilename(name) is true exactly when name is non-empty, has at
\* most 500 characters and consists only of A-Z, a-z, 0-9, '.', '_', '-',
\* the space character and '/'; tab, newline and U+00A0 make it false.
C3_ValidExactly ==
  mode = "isValidFilename" =>
     (ret = TRUE <=>
        /\ Len(arg) >= 1
        /\ Len(arg) <= 500
        /\ \A i \in 1..Len(arg) : arg[i] \in C3_LegalChars)

\* 1-based index of the last '.' of s, 0 if there is none
C4_LastDot(s) ==
  IF \E i \in 1..Len(s) : s[i] = "."
    THEN CHOOSE i \in 1..Len(s) : s[i] = "." /\ \A j \in (i + 1)..Len(s) : s[j] # "."
  ELSE 0

\* the text of s after its last '.', lower-cased, with the '.' put in front
C4_DotLowerAfterLastDot(s) ==
  <<".">> \o toLowerCase(SubSeq(s, C4_LastDot(s) + 1, Len(s)))

\* C4 as stated: isAllowedFileType(name) is true if and only if the
\* lower-cased substring after the last '.' of name is one of the 30
\* configured extensions (so '.pdf' is judged on 'pdf').
C4_LastDotRule ==
  mode = "isAllowedFileType" =>
     (ret = TRUE <=>
        /\ C4_LastDot(arg) > 0
        /\ C4_DotLowerAfterLastDot(arg) \in allowedExtensions)

\* C4 amended: for a name without '/', isAllowedFileType(name) is true if
\* and only if name has a last '.' that is not its first character and the
\* lower-cased substring after it is one of the 30 configured extensions;
\* letter case of the extension never matters; a name with no '.', with a
\* trailing '.', or whose only '.' is its first character is rejected.
C4_LastDotRuleAmended ==
  (mode = "isAllowedFileType" /\ ~includes(arg, <<"/">>)) =>
     (ret = TRUE <=>
        /\ C4_LastDot(arg) > 1
        /\ C4_DotLowerAfterLastDot(arg) \in allowedExtensions)

\* C4 witness: an upper-case whitelisted extension was accepted
C4_Witness ==
  /\ mode = "isAllowedFileType"
  /\ arg = Str("report.pdf.JPG")
  /\ ret = TRUE

\* C5: sanitizeFilename(sanitizeFilename(s)) = sanitizeFilename(s) and
\* sanitizePath(sanitizePath(s)) = sanitizePath(s) for every string s.
C5_IdempotentSanitization ==
  (mode \in SanitizerModes /\ pc = "twice") => ret2 = ret

\* C5 witness: a second call was made on a result that the first call
\* changed and left non-empty, from an input with '..' and a backslash
C5_Witness ==
  /\ mode = "sanitizePath" /\ pc = "twice"
  /\ includes(arg, DotDot) /\ includes(arg, <<"\\">>)
  /\ ret # arg /\ ret # <<>>

\* the characters C6 says never occur in an output
C6_Forbidden ==
  {"<", ">", ":", "\"", "|", "?", "*", "\\"} \cup {"NUL", "\t", "\n", "VT", "\f", "\r", "US"}

\* C6: the output of sanitizeFilename and of sanitizePath contains no '..',
\* none of < > : " | ? *, no character 0x00-0x1F and no backslash; the
\* output of sanitizeFilename contains no '/'.
C6_OutputClean ==
  (mode \in SanitizerModes /\ pc \in {"once", "twice"}) =>
     /\ ~includes(ret, DotDot)
     /\ \A i \in 1..Len(ret) : ret[i] \notin C6_Forbidden
     /\ mode = "sanitizeFilename" => \A i \in 1..Len(ret) : ret[i] # "/"

\* C6 witness: stripping the character between two dots brought them
\* together, and the pair was then removed
C6_Witness ==
  /\ mode = "sanitizeFilename" /\ pc = "once"
  /\ arg = Str("a.<.")
  /\ ret = Str("a")

(***************************************************************************)
(* Properties of the request flows (checked under Spec)                    *)
(***************************************************************************)

\* p is root or a descendant of root, with no ".." segment left in it
C1_Within(p, root) ==
  LET q == stripTrailingSlash(p)
  IN  /\ q = root \/ startsWith(q, root \o <<"/">>)
      /\ \A i \in 1..Len(splitSlash(q)) : splitSlash(q)[i] # <<".", ".">>

\* C1: whenever the download, the directory-listing or the
\* upload-destination flow does not reject a raw client string, the
\* filesystem path it operates on is the storage root or a descendant of it.
C1_ConfinementSound ==
  opPath # NoString =>
     C1_Within(opPath, IF mode = "upload" THEN Str("/d/u") ELSE Str("/d/p"))

\* C1 witness: a download with percent-encoded traversal was not rejected
\* and went on to fs.stat
C1_Witness ==
  /\ mode = "download" /\ pc = "dlStat"
  /\ includes(rawPath, Str("%2e%2e%2f"))
  /\ opPath = Str("/d/p/p/.js")

C7_WithoutSlashes(s) == SelectSeq(s, LAMBDA c : c \notin {"/", "\\"})

C8_Stages == <<"decode", "sanitize", "validate", "confine", "fs.stat", "extension", "next">>

C8_InLog(stage) == \E i \in 1..Len(log) : log[i] = stage

\* C8: the download stages run in the order sanitize, validate, confine,
\* stat, extension policy, and the first failing stage ends the request: an
\* empty or invalid sanitized path is rejected before the confinement
\* check, and neither fs.stat nor the hand-off to the static handler
\* happens for a request that failed validation or confinement.
C8_DownloadOrder ==
  mode = "download" =>
     /\ Len(log) <= Len(C8_Stages) /\ log = SubSeq(C8_Stages, 1, Len(log))
     /\ (sanitized = <<>> \/ ~isValidFilename(sanitized)) =>
           /\ pc = "done" /\ status = 400
           /\ ~C8_InLog("confine") /\ ~C8_InLog("fs.stat") /\ ~C8_InLog("next")
     /\ (sanitized # <<>> /\ isValidFilename(sanitized)
           /\ ~isSecurePath(sanitized, Str("/d/p"))) =>
           /\ pc = "done" /\ status = 403 /\ reason = "Access denied"
           /\ log[Len(log)] = "confine"
     /\ C8_InLog("extension") => fsStat(fs, opPath) = "file"

\* C8 witness: a request whose path is both invalid and outside the root
\* was rejected as invalid
C8_Witness ==
  /\ mode = "download" /\ pc = "done"
  /\ rawPath = Str("/~")
  /\ reason = "Invalid path"
  /\ ~isSecurePath(sanitized, Str("/d/p"))

\* C9: a download is handed to file serving only if the resolved path is
\* an existing regular file whose basename passes the whitelist; otherwise
\* it ends with a not-found or type-not-allowed rejection and nothing is
\* served.
C9_ServeOnlyAllowedFile ==
  (mode = "download" /\ C8_InLog("fs.stat") /\ pc # "dlStat") =>
     IF fsStat(fs, opPath) = "file" /\ isAllowedFileType(pathBasename(opPath))
       THEN /\ pc \in {"dlStatic", "dlSent"} /\ C8_InLog("next")
            /\ pc = "dlStatic" => status = 0
     ELSE /\ pc = "done" /\ ~C8_InLog("next") /\ served = NoString
          /\ IF fsStat(fs, opPath) = "file"
               THEN status = 403 /\ reason = "File type not allowed"
             ELSE status = 404 /\ reason = "File not found"

\* C9 witness: a directory whose name carries a whitelisted extension was
\* refused as not found
C9_Witness ==
  /\ mode = "download" /\ pc = "done"
  /\ opPath = Str("/d/p/pp.js")
  /\ status = 404

\* C10: a directory path (listing path, upload target directory) is
\* sanitized, then checked by the validator, then confined; one that fails
\* the validator is rejected before any filesystem access or directory
\* creation.  (The empty path names the root and is left out.)
C10_DirectoryValidated ==
  (mode \in {"listing", "upload"} /\ sanitized # <<>> /\ ~isValidFilename(sanitized)) =>
     /\ ~C8_InLog("fs.existsSync")
     /\ ~C8_InLog("fs.mkdirSync")
     /\ fs = InitialFs

(***************************************************************************)
(* Directory resolution                                                    *)
(***************************************************************************)

\* the listing flow got past its directory checks
C11_ListingResolved == mode = "listing" /\ C8_InLog("fs.readdir")

\* the upload flow got past storage.destination
C11_UploadResolved ==
  mode = "upload" /\ opPath # NoString /\ pc \in {"upFilename", "upWrite"}

\* what the listing flow does with a confined path that is missing or is
\* not a directory
C11_ListingRule ==
  (mode = "listing" /\ opPath # NoString) =>
     /\ fsStat(fs, opPath) = "none" =>
          pc = "done" /\ status = 404 /\ reason = "Directory not found"
     /\ fsStat(fs, opPath) \in {"file", "special"} =>
          pc = "done" /\ status = 400 /\ reason = "Path is not a directory"
     /\ C11_ListingResolved => fsStat(fs, opPath) = "dir"

\* C11 as stated: directory resolution succeeds only for a path that
\* already exists and is a directory: listing a missing path is rejected as
\* not found, listing a regular file as not a directory, and resolving an
\* upload target directory requires an existing directory and creates none.
C11_ExistingDirectoryOnly ==
  /\ C11_ListingRule
  /\ C11_UploadResolved => (fsStat(InitialFs, opPath) = "dir" /\ fs = InitialFs)

\* C11 amended: listing a missing path is rejected as not found and
\* listing a path that is not a directory as not a directory; resolving an
\* upload target directory does not require it to exist: a path that
\* exists is taken as it is, whatever its kind, and a missing one is
\* created as a directory together with its missing ancestors, so the
\* resolved target always exists afterwards.
C11_ListingExistingUploadCreated ==
  /\ C11_ListingRule
  /\ C11_UploadResolved =>
       /\ fsStat(fs, opPath) # "none"
       /\ fsStat(InitialFs, opPath) # "none" => fs = InitialFs
       /\ fsStat(InitialFs, opPath) = "none" =>
            /\ fsStat(fs, opPath) = "dir"
            /\ \A q \in DOMAIN fs \ DOMAIN InitialFs :
                 fs[q] = "dir" /\ startsWith(stripTrailingSlash(opPath), q)
            /\ \A q \in DOMAIN InitialFs : q \in DOMAIN fs /\ fs[q] = InitialFs[q]

\* C11 witness: an upload into a directory that did not exist went on to
\* the filename step, the directory now being there
C11_Witness ==
  /\ mode = "upload" /\ pc = "upWrite"
  /\ rawPath = Str("pp")
  /\ fsStat(InitialFs, opPath) = "none"
  /\ fsStat(fs, opPath) = "dir"

(***************************************************************************)
(* Traversal, disallowed extensions and the round trip of a download       *)
(***************************************************************************)

\* k copies of "../"
C12_Ups(k) == [i \in 1..(3 * k) |-> IF i % 3 = 0 THEN "/" ELSE "."]

\* rel is a relative path of ordinary segments: not empty, not absolute,
\* of the validator's characters, with no ".." in it
C12_Relative(rel) ==
  /\ rel # <<>> /\ rel[1] # "/"
  /\ \A i \in 1..Len(rel) : rel[i] \in C3_LegalChars
  /\ ~includes(rel, DotDot)

\* raw is one or more "../" followed by a relative path
C12_Traversal(raw) ==
  \E k \in 1..(Len(raw) \div 3) :
     startsWith(raw, C12_Ups(k)) /\ C12_Relative(substring(raw, 3 * k))

\* the relative path that follows the leading "../" segments of raw
C12_After(raw) ==
  LET k == CHOOSE n \in 1..(Len(raw) \div 3) :
             startsWith(raw, C12_Ups(n)) /\ C12_Relative(substring(raw, 3 * n))
  IN  substring(raw, 3 * k)

C13_DisallowedName(name) ==
  /\ \A i \in 1..Len(name) : name[i] \in C3_LegalChars \ {"/"}
  /\ ~includes(name, DotDot)
  /\ C4_LastDot(name) > 1 /\ C4_LastDot(name) < Len(name)
  /\ C4_DotLowerAfterLastDot(name) \notin allowedExtensions

\* C13 as stated: a download request for a name whose extension is not
\* whitelisted ends with the type-not-allowed rejection, whether or not a
\* file of that name exists under the root.
C13_DisallowedAlwaysTypeRejected ==
  (mode = "download" /\ pc \in {"done", "dlStatic"} /\ C13_DisallowedName(rawPath)) =>
     (pc = "done" /\ status = 403 /\ reason = "File type not allowed")

\* C13 amended: a download request for a name whose extension is not
\* whitelisted ends with the type-not-allowed rejection when a regular file
\* of that name exists under the root, and with the not-found rejection
\* when none does; it is never served.
C13_DisallowedTypeRejectedIfExists ==
  (mode = "download" /\ pc \in {"done", "dlStatic"} /\ C13_DisallowedName(rawPath)) =>
     /\ pc = "done"
     /\ IF Str("/d/p/") \o rawPath \in DOMAIN fs /\ fs[Str("/d/p/") \o rawPath] = "file"
          THEN status = 403 /\ reason = "File type not allowed"
        ELSE status = 404 /\ reason = "File not found"

\* C13 witness: an existing file with an extension off the whitelist was
\* refused for its type
C13_Witness ==
  /\ mode = "download" /\ pc = "done"
  /\ rawPath = Str("p.p")
  /\ fsStat(fs, opPath) = "file"
  /\ status = 403 /\ reason = "File type not allowed"

\* the last segment of a relative path
C14_LastSegment(rel) == splitSlash(rel)[Len(splitSlash(rel))]

\* rel is the path, relative to the public directory, of an existing
\* regular file; it is made of the validator's characters, has no "..", is
\* at most 500 characters long, and its name has a whitelisted extension
C14_ServableFile(rel) ==
  /\ Str("/d/p/") \o rel \in DOMAIN fs
  /\ fs[Str("/d/p/") \o rel] = "file"
  /\ \A i \in 1..Len(rel) : rel[i] \in C3_LegalChars
  /\ ~includes(rel, DotDot)
  /\ Len(rel) <= 500
  /\ C4_LastDot(C14_LastSegment(rel)) > 1
  /\ C4_DotLowerAfterLastDot(C14_LastSegment(rel)) \in allowedExtensions

\* C14: round trip: for every existing regular file under the root whose
\* relative path uses only validator-legal characters, has no '..', is at
\* most 500 characters and has a whitelisted extension, the download
\* resolution succeeds, and the path it resolves, taken relative to the
\* root, equals the requested relative path unchanged.
C14_RoundTrip ==
  (mode = "download" /\ C14_ServableFile(rawPath)) =>
     /\ sanitized = rawPath
     /\ opPath = Str("/d/p/") \o rawPath
     /\ pc \in {"dlStat", "dlStatic", "dlSent"}
     /\ pc = "dlStatic" => status = 0 /\ C8_InLog("next")
     /\ pc = "dlSent" => status = 200 /\ served = opPath

\* C14 witness: the file p.js of the subdirectory d was requested by its
\* relative path and handed to file serving
C14_Witness ==
  /\ mode = "download" /\ pc = "dlStatic"
  /\ rawPath = Str("d/p.js")
  /\ opPath = Str("/d/p/d/p.js")
  /\ fsStat(fs, opPath) = "file"

(***************************************************************************)
(* The directory listing                                                   *)
(***************************************************************************)

\* the names of the immediate children of directory dir in filesystem f
C15_Children(f, dir) ==
  { substring(q, Len(dir) + 1) :
      q \in { r \in DOMAIN f : /\ startsWith(r, dir \o <<"/">>)
                               /\ ~includes(substring(r, Len(dir) + 1), <<"/">>) } }

\* the children a listing is to show: every directory, and every regular
\* file whose sanitized name is non-empty, valid and of an allowed type
C15_Listed(f, dir) ==
  { n \in C15_Children(f, dir) :
      \/ f[dir \o <<"/">> \o n] = "dir"
      \/ /\ f[dir \o <<"/">> \o n] = "file"
         /\ sanitizeFilename(n) # <<>>
         /\ isValidFilename(sanitizeFilename(n))
         /\ isAllowedFileType(sanitizeFilename(n)) }

\* the listing was sent and no file was removed while it was made
C15_QuietListing ==
  mode = "listing" /\ pc = "done" /\ status = 200 /\ unlinked = NoString

\* C15: the listing of a directory contains exactly every immediate child
\* that is a directory (no name or extension filtering) and every immediate
\* child that is a regular file whose sanitized name is non-empty, passes
\* isValidFilename and passes isAllowedFileType; every other child is
\* omitted without error, and no non-immediate descendant appears.
C15_ListingContents ==
  /\ C15_QuietListing =>
       LET dir == stripTrailingSlash(opPath) IN
       /\ { rendered[i].name : i \in 1..Len(rendered) } = C15_Listed(fs, dir)
       /\ Len(rendered) = Cardinality(C15_Listed(fs, dir))
       /\ \A i \in 1..Len(rendered) :
            rendered[i].isDirectory <=> (fs[dir \o <<"/">> \o rendered[i].name] = "dir")
  /\ (mode = "listing" /\ unlinked = NoString) => pc # "thrown"

\* C15 witness: the listing of the public directory shows its three
\* directories and three of its seven files, and not the file of the
\* subdirectory d
C15_Witness ==
  /\ C15_QuietListing
  /\ opPath = Str("/d/p")
  /\ Len(rendered) = 6
  /\ Cardinality(C15_Children(fs, Str("/d/p"))) = 10
  /\ Str("/d/p/d/p.js") \in DOMAIN fs

\* C16: listing totality under partial failure: if a child returned by the
\* directory enumeration is deleted before either of its stat calls, that
\* child alone is dropped and the request still completes with a
\* successful listing of all other children; a per-entry stat failure
\* never aborts the listing, throws out of the handler, or leaves the
\* request without a response.
C16_ListingTotal ==
  (mode = "listing" /\ unlinked # NoString /\ reason # "Error reading directory") =>
     /\ pc # "thrown"
     /\ pc = "done" =>
          LET dir == stripTrailingSlash(opPath) IN
          /\ status = 200
          /\ { rendered[i].name : i \in 1..Len(rendered) } \ { pathBasename(unlinked) }
               = C15_Listed(fs, dir)

\* the upper-cased text after the last '.' of name, or the marker FILE if
\* there is no such text
C17_Extension(name) ==
  IF C4_LastDot(name) = 0 \/ C4_LastDot(name) = Len(name) THEN Str("FILE")
  ELSE toUpperCase(SubSeq(name, C4_LastDot(name) + 1, Len(name)))

\* C17: in every listing result, each directory entry carries no size, no
\* modified time and no extension, and each file entry carries its size
\* and modified time from the filesystem's metadata of that file and an
\* extension equal to the upper-cased text after the last '.' of its name
\* (or the marker 'FILE' if there is none).
C17_EntryFields ==
  mode = "listing" =>
     \A i \in 1..Len(rendered) :
        LET entry == rendered[i]
            file  == stripTrailingSlash(opPath) \o <<"/">> \o entry.name
        IN  IF entry.isDirectory
              THEN DOMAIN entry \cap {"size", "formattedSize", "modified", "extension"} = {}
            ELSE /\ {"size", "modified", "extension"} \subseteq DOMAIN entry
                 /\ entry.size = statsSize(file)
                 /\ entry.modified = toLocaleString(statsMtime(file))
                 /\ entry.extension = C17_Extension(entry.name)

\* C17 witness: a listing with a directory entry, a file entry of
\* extension JS and a file entry whose name ends in dots, marked FILE
C17_Witness ==
  /\ mode = "listing" /\ pc = "done" /\ status = 200
  /\ \E i \in 1..Len(rendered) : rendered[i].isDirectory
  /\ \E i \in 1..Len(rendered) :
        /\ rendered[i].name = Str("p.js")
        /\ rendered[i].extension = Str("JS")
        /\ rendered[i].size = statsSize(Str("/d/p/p.js"))
  /\ \E i \in 1..Len(rendered) :
        rendered[i].name = Str("p.js..") /\ rendered[i].extension = Str("FILE")

\* the names of a sequence of entries, in its order
C18_Names(entries) == [i \in 1..Len(entries) |-> entries[i].name]

\* a listing was sent
C18_Sent == mode = "listing" /\ pc = "done" /\ status = 200

\* the enumerated names that are rendered as a folder (TRUE) or as a file
\* (FALSE), in the order of the enumeration
C18_Enumerated(asFolder) ==
  SelectSeq(files, LAMBDA n :
     \E i \in 1..Len(rendered) : rendered[i].name = n /\ rendered[i].isDirectory = asFolder)

\* C18 as stated: the entries of a listing appear in the order in which the
\* directory enumeration returned them (restricted to the included
\* entries), with no sorting or regrouping, whatever the order in which the
\* per-file stat callbacks complete.
C18_EnumerationOrder ==
  C18_Sent =>
     C18_Names(rendered)
       = SelectSeq(files, LAMBDA n : \E i \in 1..Len(rendered) : rendered[i].name = n)

\* C18 amended: the entries of a listing are regrouped, all folders first
\* and all files after them; within each group they appear in the order in
\* which the directory enumeration returned them, with no sorting, whatever
\* the order in which the per-file stat callbacks complete.
C18_FoldersFirstEnumerationOrder ==
  C18_Sent => C18_Names(rendered) = C18_Enumerated(TRUE) \o C18_Enumerated(FALSE)

\* C18 witness: a listing was sent whose enumeration had a file before a
\* folder and whose stat callbacks came back last file first
C18_Witness ==
  /\ C18_Sent
  /\ Len(files) >= 2 /\ files[1] = Str("p.js") /\ files[2] = Str("p")
  /\ Len(settleOrder) = 3
  /\ validItems[settleOrder[1]].name = Str("p.js..")
  /\ validItems[settleOrder[3]].name = Str("p.js")
  /\ Len(rendered) = 6

(***************************************************************************)
(* Upload names                                                            *)
(***************************************************************************)

\* stem_n+ext for a client name with an extension
C19_Suffixed(clientName, n) ==
  SubSeq(clientName, 1, C4_LastDot(clientName) - 1) \o <<"_">> \o decimal(n)
    \o SubSeq(clientName, C4_LastDot(clientName), Len(clientName))

\* an entry called name exists in the upload's target directory
C19_Taken(name) == (stripTrailingSlash(opPath) \o <<"/">> \o name) \in DOMAIN fs

\* C19: upload name reservation: if no entry named clientName exists in the
\* target directory the final name is clientName; otherwise it is
\* stem_n+ext, where n is the smallest integer >= 1 such that stem_n+ext
\* does not exist; the returned name does not exist in the directory at
\* the moment it is returned.
C19_SmallestFreeSuffix ==
  (mode = "upload" /\ pc = "upWrite") =>
     LET clientName == sanitizeFilename(rawName) IN
     /\ ~C19_Taken(finalName)
     /\ IF ~C19_Taken(clientName) THEN finalName = clientName
        ELSE \E n \in 1..Cardinality(DOMAIN fs) :
               /\ finalName = C19_Suffixed(clientName, n)
               /\ \A m \in 1..(n - 1) : C19_Taken(C19_Suffixed(clientName, m))

\* C19 witness: p.js and p_1.js were taken in the target directory and the
\* upload of p.js was given p_2.js
C19_Witness ==
  /\ mode = "upload" /\ pc = "upWrite"
  /\ rawName = Str("p.js") /\ opPath = Str("/d/u/p")
  /\ C19_Taken(Str("p.js")) /\ C19_Taken(Str("p_1.js"))
  /\ finalName = Str("p_2.js")

\* C20: an upload whose client filename, after sanitizeFilename, is empty,
\* fails isValidFilename or fails isAllowedFileType is rejected with an
\* error, and for such a request no name is reserved, no file is written
\* and no target directory is created: the name check runs before the
\* destination step.
C20_BadNameNoEffect ==
  (/\ mode = "upload"
   /\ \/ sanitizeFilename(rawName) = <<>>
      \/ ~isValidFilename(sanitizeFilename(rawName))
      \/ ~isAllowedFileType(sanitizeFilename(rawName))) =>
     /\ pc = "done" /\ status = 400
     /\ finalName = NoString
     /\ opPath = NoString
     /\ fs = InitialFs
     /\ ~C8_InLog("fs.existsSync") /\ ~C8_InLog("fs.mkdirSync") /\ ~C8_InLog("filename")

\* C20 witness: a name the validator refuses, sent for a target directory
\* that does not exist, was rejected and the directory was not made
C20_Witness ==
  /\ mode = "upload" /\ pc = "done"
  /\ rawName = Str("p.~") /\ rawPath = Str("pp")
  /\ status = 400 /\ reason = "File type not allowed"
  /\ Str("/d/u/pp") \notin DOMAIN fs

(***************************************************************************)
(* Properties of concurrent uploads (checked under SpecUploads)            *)
(***************************************************************************)

C21_Stored(r) == uploads[r].pc = "done" /\ uploads[r].status = 200

\* C21: when two uploads carrying the same client file name for the same
\* target directory interleave so that both found the name free, the two
\* successful responses never name the same final path, and no write
\* stream opens a path that another request's stream has already created.
C21_NoSharedFinalPath ==
  /\ \A r, q \in Requests :
       (r # q /\ C21_Stored(r) /\ C21_Stored(q)) => uploads[r].path # uploads[q].path
  /\ \A r \in Requests :
       uploads[r].pc \in {"writing", "done"} /\ uploads[r].status \in {0, 200}
         /\ uploads[r].path \in DOMAIN owner
       => owner[uploads[r].path] = r

C23_Failed(r) == uploads[r].pc = "done" /\ uploads[r].status = 400

\* C23: an upload that ends in failure (invalid upload path, invalid name
\* or type, file over the size limit, write error), with no other upload
\* running, leaves the filesystem exactly as it was: no new directory and
\* no new or partial file.
C23_FailedUploadNoEffect ==
  \A r, q \in Requests :
    (r # q /\ C23_Failed(r) /\ uploads[q].pc = "idle") => fs = InitialFs

\* C27: an uploaded file is stored in the directory named by the request's
\* uploadPath, and the 'path' of the response names the directory the file
\* was stored in, whether the uploadPath field comes before or after the
\* file part in the multipart body.
C27_StoredWhereNamed ==
  \A r \in Requests :
    C21_Stored(r) =>
      /\ uploads[r].destination = pathJoin(uploadsDir, sanitizePath(uploads[r].uploadPath))
      /\ pathJoin(uploadsDir, uploads[r].responsePath) = uploads[r].destination

(***************************************************************************)
(* Properties of the collision loop (checked under SpecNaming)             *)
(***************************************************************************)

\* C22: the suffix loop ends after a bounded number of existence checks,
\* at most a fixed cap of 1000, with a free name or a name-exhaustion
\* error, also while other writers keep creating the name tried next.
C22_BoundedChecks == naming.checks <= 1000

(***************************************************************************)
(* Properties of the file served (checked under Spec)                      *)
(***************************************************************************)

\* C26: for every download that passed all the middleware's checks, the
\* file express.static sends is the file that was validated: the path it
\* resolves from the request equals the sanitized path that was checked,
\* also when sanitization removed characters from the request.
C26_ServedIsValidated ==
  (mode = "download" /\ pc = "dlSent" /\ status = 200) => served = opPath

\* C29: every file entry of a listing can be downloaded through its own
\* link: the request for the entry's URL-encoded relative path passes
\* validation, confinement, the regular-file check and the whitelist, and
\* the file checked and the file sent are the entry's own file, also when
\* the entry's name on disk has characters the sanitizer strips.
C29_EntryDownloadable ==
  (mode = "download" /\ linked # NoString /\ pc \in {"done", "dlSent"}
     /\ pathJoin(publicDir, linked.path) \in DOMAIN fs)
  => /\ pc = "dlSent" /\ status = 200
     /\ opPath = pathJoin(publicDir, linked.path)
     /\ served = pathJoin(publicDir, linked.path)

(***************************************************************************)
(* Properties of the page's upload script (checked under SpecClient)       *)
(***************************************************************************)

\* the requests that are waiting for their send timer or are in flight
C24_Live == { i \in 1..Len(xhrs) : xhrs[i].readyState \in {"UNSENT", "OPENED"} }

\* C24: one page never has two upload requests in flight or scheduled at
\* the same time, whatever the order of submit, modal close, drop or
\* select and timer events.
C24_OneUploadAtATime == Cardinality(C24_Live) <= 1

\* C25: once closeUploadModal has run while an upload was in progress, that
\* upload is cancelled: aborted if it had been sent, never sent afterwards
\* if it was still waiting; and the in-progress flag and the stored request
\* were cleared by it.
C25_CloseCancels ==
  \A i \in 1..Len(xhrs) :
    xhrs[i].cancelled =>
      /\ xhrs[i].readyState \in {"UNSENT", "ABORTED"}
      /\ currentUploadXHR # i

\* C30: on submit the page uploads the file selected last: the file of a
\* request just created is the file of the user's most recent drop or
\* picker selection.
C30_UploadsLastSelected ==
  [][Len(xhrs') = Len(xhrs) + 1 => xhrs'[Len(xhrs')].file = lastSelected]_vars

(***************************************************************************)
(* Properties of the final name (checked under SpecPure)                   *)
(***************************************************************************)

\* C28: the final name storage.filename hands to multer obeys the rules of
\* an accepted client name: it passes isValidFilename, so it is at most 500
\* characters long with its '_n' suffix, it has no '/', and it passes
\* isAllowedFileType with the extension of the sanitized client name.
C28_FinalNameValid ==
  (mode = "filename" /\ pc = "returned" /\ ret # NoString) =>
    /\ isValidFilename(ret)
    /\ "/" \notin Seq2Set(ret)
    /\ isAllowedFileType(ret)
    /\ extname(ret) = extname(sanitizeFilename(arg))

====
